---- MODULE Spec2Model ----
(***************************************************************************)
(* Snapshot-diff engine and process identity of rust-psutil.               *)
(*                                                                         *)
(* The repository holds several revisions of the same components side by   *)
(* side (src/disk.rs and src/disk/disk_io_counters.rs, src/network.rs and  *)
(* src/network/sys/linux/net_io_counters.rs, ...).  Each revision is a     *)
(* "variant" of the model; the variant is fixed in the initial state.      *)
(***************************************************************************)
EXTENDS Integers, Sequences, FiniteSets, TLC

VARIABLES
    overflow_checks,   \* build profile: TRUE = arithmetic overflow panics (debug)
    variant,           \* which collector revision is running (fixed at start)
    io_prev,           \* the collector's stored last raw reading
    io_corrected,      \* the collector's stored corrected totals
    io_last,           \* the last call: which one, what its reader gave, what it returned
    io_returned,       \* what a caller that keeps its results was last given, per entity
    calls,             \* number of sampling calls made so far (bounded)
    cpu_times,         \* CPU collector: the stored system-wide snapshot
    cpu_times_percpu,  \* CPU collector: the stored per-CPU snapshots
    cpu_last,          \* the last CPU call: which one, what it read and returned
    world,             \* the kernel's process table: pid -> the process using it
    now,               \* the monotonic clock, in ticks
    procs,             \* the Process values the program holds, by name
    proc_last,         \* the last Process operation, its arguments and its result
    listed,            \* what the last enumeration of all processes returned
    collector,         \* the ProcessCollector the program holds
    mutex,             \* how the callers of one CPU collector share it, and who holds it
    callers,           \* each caller's position in cpu_times_percent() and what it read
    open_handles,      \* the handles the operating system holds open for the program
    objects,           \* the SafeHandle values the program holds, by name
    handle_last,       \* the last SafeHandle operation and what it did
    line,              \* a line of kernel text handed to a parser
    parsed             \* what the parser made of it

io_vars == <<io_prev, io_corrected, io_last, io_returned>>

share_vars == <<mutex, callers>>

cpu_vars == <<cpu_times, cpu_times_percpu, cpu_last, share_vars>>

enum_vars == <<listed, collector>>

win_vars == <<open_handles, objects, handle_last>>

parse_vars == <<line, parsed>>

proc_vars == <<world, now, procs, proc_last, enum_vars, win_vars, parse_vars>>

vars == <<overflow_checks, variant, calls, io_vars, cpu_vars, proc_vars>>

-----------------------------------------------------------------------------
(* u64 arithmetic.  A u64 is four little-endian 16-bit limbs, so that the  *)
(* values around 2^32 and 2^64 the wraparound code is about are exact.     *)

Limb == 2^16

U(n) == <<n, 0, 0, 0>>

\* a + b in u64: the wrapped value, and whether the true sum left the range
U64Add(a, b) ==
    LET s1 == a[1] + b[1]
        s2 == a[2] + b[2] + (s1 \div Limb)
        s3 == a[3] + b[3] + (s2 \div Limb)
        s4 == a[4] + b[4] + (s3 \div Limb)
    IN  [val |-> <<s1 % Limb, s2 % Limb, s3 % Limb, s4 % Limb>>,
         overflow |-> s4 >= Limb]

\* a - b in u64: the wrapped value, and whether the true difference is negative
U64Sub(a, b) ==
    LET d1 == a[1] - b[1]
        d2 == a[2] - b[2] - (IF d1 < 0 THEN 1 ELSE 0)
        d3 == a[3] - b[3] - (IF d2 < 0 THEN 1 ELSE 0)
        d4 == a[4] - b[4] - (IF d3 < 0 THEN 1 ELSE 0)
    IN  [val |-> <<d1 % Limb, d2 % Limb, d3 % Limb, d4 % Limb>>,
         overflow |-> d4 < 0]

U64Ge(a, b) == ~U64Sub(a, b).overflow

U64Zero == U(0)

-----------------------------------------------------------------------------
(* Delta engine, rate mode: the nowrap functions of the five revisions.    *)

\* const MAX_VALUE: u64 = 4_294_967_296 (src/disk.rs, src/network.rs)
MAX_VALUE == <<0, 0, 1, 0>>

\* std::u32::MAX as u64 = 4_294_967_295 (the three newer revisions)
U32_MAX == <<65535, 65535, 0, 0>>

\* The legacy expression, evaluated left to right as Rust does:
\*   total + current - past          and   total + current + MAX_VALUE - past
legacy_nowrap(past_value, current_value, total_value) ==
    LET tc == U64Add(total_value, current_value)
    IN  IF U64Ge(current_value, past_value)
        THEN LET r == U64Sub(tc.val, past_value)
             IN  [val |-> r.val, overflow |-> tc.overflow \/ r.overflow]
        ELSE LET m == U64Add(tc.val, MAX_VALUE)
                 r == U64Sub(m.val, past_value)
             IN  [val |-> r.val,
                  overflow |-> tc.overflow \/ m.overflow \/ r.overflow]

disk_rs_nowrap(past_value, current_value, total_value) ==
    legacy_nowrap(past_value, current_value, total_value)

network_rs_nowrap(past_value, current_value, total_value) ==
    legacy_nowrap(past_value, current_value, total_value)

\* The newer expression:
\*   corrected + (current - prev)    and   corrected + current + (u32::MAX - prev)
option_nowrap(prev, current, corrected) ==
    IF U64Ge(current, prev)
    THEN LET d == U64Sub(current, prev)
             r == U64Add(corrected, d.val)
         IN  [val |-> r.val, overflow |-> d.overflow \/ r.overflow]
    ELSE LET cc == U64Add(corrected, current)
             g == U64Sub(U32_MAX, prev)
             r == U64Add(cc.val, g.val)
         IN  [val |-> r.val,
              overflow |-> cc.overflow \/ g.overflow \/ r.overflow]

disk_io_counters_nowrap(prev, current, corrected) ==
    option_nowrap(prev, current, corrected)

sys_linux_disk_nowrap(prev, current, corrected) ==
    option_nowrap(prev, current, corrected)

sys_linux_net_nowrap(prev, current, corrected) ==
    option_nowrap(prev, current, corrected)

-----------------------------------------------------------------------------
(* Snapshot records and per-entity maps.                                   *)

IoVariants ==
    {"disk_rs", "network_rs", "disk_io_counters_rs", "sys_linux_disk", "sys_linux_net"}

LegacyVariants == {"disk_rs", "network_rs"}

DiskFields ==
    {"read_count", "write_count", "read_bytes", "write_bytes", "read_time",
     "write_time", "read_merged_count", "write_merged_count", "busy_time"}

NetIOCountersFields ==
    {"bytes_send", "bytes_recv", "packets_send", "packets_recv",
     "errin", "errout", "dropin", "dropout"}

NetIoCountersFields ==
    {"bytes_sent", "bytes_recv", "packets_sent", "packets_recv",
     "err_in", "err_out", "drop_in", "drop_out"}

Fields(v) ==
    CASE v = "network_rs" -> NetIOCountersFields
      [] v = "sys_linux_net" -> NetIoCountersFields
      [] OTHER -> DiskFields

\* the nowrap function each revision's map-level function calls
nowrap(v, prev, current, corrected) ==
    CASE v = "disk_rs" -> disk_rs_nowrap(prev, current, corrected)
      [] v = "network_rs" -> network_rs_nowrap(prev, current, corrected)
      [] v = "disk_io_counters_rs" -> disk_io_counters_nowrap(prev, current, corrected)
      [] v = "sys_linux_disk" -> sys_linux_disk_nowrap(prev, current, corrected)
      [] v = "sys_linux_net" -> sys_linux_net_nowrap(prev, current, corrected)

EmptyMap == [n \in {} |-> 0]

\* nowrap_struct / the struct literal inside the map-level functions:
\* every field is corrected by nowrap on its own
nowrap_struct(v, prev, current, corrected) ==
    [f \in Fields(v) |-> nowrap(v, prev[f], current[f], corrected[f])]

\* a map-level function that returned the known entities only
fix_io_counter_overflow_known_only(v, prev, current, corrected) ==
    LET both == DOMAIN current \cap DOMAIN prev \cap DOMAIN corrected
        fixed == [n \in both |-> nowrap_struct(v, prev[n], current[n], corrected[n])]
    IN  [map |-> [n \in both |-> [f \in Fields(v) |-> fixed[n][f].val]],
         overflow |-> \E n \in both : \E f \in Fields(v) : fixed[n][f].overflow]

\* a map-level function that kept the totals of entities no longer read
fix_io_counter_overflow_keeping_gone(v, prev, current, corrected) ==
    LET both == DOMAIN current \cap DOMAIN prev \cap DOMAIN corrected
        gone == DOMAIN corrected \ DOMAIN current
        fixed == [n \in both |-> nowrap_struct(v, prev[n], current[n], corrected[n])]
    IN  [map |-> [n \in DOMAIN current \cup gone |->
                    IF n \in both THEN [f \in Fields(v) |-> fixed[n][f].val]
                    ELSE IF n \in gone THEN corrected[n]
                    ELSE current[n]],
         overflow |-> \E n \in both : \E f \in Fields(v) : fixed[n][f].overflow]

\* total_disk_io_counters, total_net_io_counters, fix_io_counter_overflow:
\* an entity known to both stored maps is corrected, any other is copied raw.
\* "overflow" tells whether some u64 operation left its range on the way.
fix_io_counter_overflow(v, prev, current, corrected) ==
    LET known(n) == n \in DOMAIN prev /\ n \in DOMAIN corrected
        fixed == [n \in DOMAIN current |->
                    IF known(n)
                    THEN nowrap_struct(v, prev[n], current[n], corrected[n])
                    ELSE [f \in Fields(v) |-> [val |-> current[n][f], overflow |-> FALSE]]]
    IN  [map |-> [n \in DOMAIN current |-> [f \in Fields(v) |-> fixed[n][f].val]],
         overflow |-> \E n \in DOMAIN current : \E f \in Fields(v) : fixed[n][f].overflow]

-----------------------------------------------------------------------------
(* Raw sample reader: what /proc/diskstats or /proc/net/dev parses to.     *)

MaxCalls == 3

Names == {"dev0", "dev1"}

\* raw counter values a reading may hold: small, just below 2^32, above 2^32
RawValues == {U(0), U(10), <<65530, 65535, 0, 0>>, <<58368, 21515, 2, 0>>}

\* the second entity comes and goes and wraps, which is all it is there for
RawValuesOf(n) == IF n = "dev0" THEN RawValues ELSE {U(10), <<65530, 65535, 0, 0>>}

Counters(v, x) == [f \in Fields(v) |-> x]

Readings(v) ==
    UNION {{m \in [S -> {Counters(v, x) : x \in RawValues}] :
               \A n \in S : \E x \in RawValuesOf(n) : m[n] = Counters(v, x)} :
           S \in SUBSET Names}

\* io::ErrorKind of a failed read or parse
IoErrors == {"NotFound", "InvalidData"}

\* how a read can fail: the file cannot be read (NotFound), a token is not a
\* number (InvalidData), or a line has fewer columns than the parser indexes
ReaderFailures == IoErrors \cup {"ShortLine"}

\* src/network.rs indexes net_infos_u64[0..9] without a length check, and
\* linux/cpu.rs lets a line of ten tokens (nine values) reach cpu_info[9];
\* every other parser checks the number of fields and returns InvalidData
PanicsOnShortLine(v) == v \in {"network_rs", "linux_cpu_rs"}

ReadOk(m) == [ok |-> TRUE, map |-> m, err |-> "none"]
ReadErr(e) == [ok |-> FALSE, map |-> EmptyMap, err |-> e]

ReaderOutcomes(v) ==
    {ReadOk(m) : m \in Readings(v)} \cup {ReadErr(e) : e \in ReaderFailures}

-----------------------------------------------------------------------------
(* Stateful collectors for disk and network counters.                      *)

Some(m) == [some |-> TRUE, map |-> m]
None == [some |-> FALSE, map |-> EmptyMap]

RetOk(m) == [kind |-> "ok", map |-> m, err |-> "none"]
RetErr(e) == [kind |-> "err", map |-> EmptyMap, err |-> e]
RetPanic == [kind |-> "panic", map |-> EmptyMap, err |-> "none"]
RetNone == [kind |-> "none", map |-> EmptyMap, err |-> "none"]

\* the operation just performed: its nowrap argument, what the reader gave,
\* what was returned, and the entities the collector held when it was called
History(op, flag, read, ret) ==
    [op |-> op, nowrap |-> flag, read |-> read, result |-> ret,
     known |-> DOMAIN io_prev.map \cap DOMAIN io_corrected.map]

\* a panic unwinds out of the caller: nothing more happens to this collector
Alive == io_last.result.kind # "panic"

CanCall == Alive /\ calls < MaxCalls

\* the caller's record of the corrected counters it was given: a caller
\* either keeps the last ones of every entity or keeps nothing
Kept(m) == [kept |-> TRUE, map |-> m]
NotKept == [kept |-> FALSE, map |-> EmptyMap]

\* a collector as its constructor leaves it
IoNew ==
    /\ io_prev = IF variant \in LegacyVariants THEN Some(EmptyMap) ELSE None
    /\ io_corrected = IF variant \in LegacyVariants THEN Some(EmptyMap) ELSE None
    /\ io_last = History("new", TRUE, ReadOk(EmptyMap), RetNone)

IoInit ==
    /\ IoNew
    /\ io_returned = NotKept

\* `let x = read()?;`: a reader failure is returned to the caller as it is
Propagate(e) == RetErr(e)

\* what the call makes of a failed read
ReaderFailed(v, e) ==
    IF e = "ShortLine"
    THEN IF PanicsOnShortLine(v) THEN RetPanic ELSE Propagate("InvalidData")
    ELSE Propagate(e)

\* a first call that reported zeros in place of the reading
BaselineCountersZeroed(reading) ==
    [n \in DOMAIN reading |-> [f \in DOMAIN reading[n] |-> U64Zero]]

\* what a call without usable stored state reports: the reading itself
\* (`_ => io_counters.clone()`, `self.total_net_io_counters = net_io_counters_vector.clone()`)
BaselineCounters(reading) == reading

\* a call that stored the corrected totals but kept the reading before
StoreKeepingPrev(reading, corrected_counters) ==
    [prev |-> io_prev, corrected |-> Some(corrected_counters)]

\* the two assignments that end a state-updating call
Store(reading, corrected_counters) ==
    [prev |-> Some(reading), corrected |-> Some(corrected_counters)]

\* what the caller has been given so far, once a call returned corrected_counters
ReturnedSoFar(corrected_counters) ==
    IF io_returned.kept
    THEN Kept([n \in DOMAIN io_returned.map \cup DOMAIN corrected_counters |->
                 IF n \in DOMAIN corrected_counters THEN corrected_counters[n]
                 ELSE io_returned.map[n]])
    ELSE NotKept

\* The effect of one call once the reader returned `read`.
\*   stateless: the legacy nowrap = false path
\*   baseline:  no usable stored state, the reading is stored as it is
Call(op, flag, read, stateless, baseline) ==
    LET fx == fix_io_counter_overflow(variant, io_prev.map, read.map, io_corrected.map)
        corrected_counters == IF baseline THEN BaselineCounters(read.map) ELSE fx.map
        st == Store(read.map, corrected_counters)
    IN  /\ calls' = calls + 1
        /\ UNCHANGED <<overflow_checks, variant, cpu_vars, proc_vars>>
        /\ IF ~read.ok
           THEN /\ io_last' = History(op, flag, read, ReaderFailed(variant, read.err))
                /\ UNCHANGED <<io_prev, io_corrected, io_returned>>
           ELSE IF stateless
           THEN /\ io_last' = History(op, flag, read, RetOk(read.map))
                /\ UNCHANGED <<io_prev, io_corrected, io_returned>>
           ELSE IF ~baseline /\ fx.overflow /\ overflow_checks
           THEN /\ io_last' = History(op, flag, read, RetPanic)
                /\ UNCHANGED <<io_prev, io_corrected, io_returned>>
           ELSE /\ io_prev' = st.prev
                /\ io_corrected' = st.corrected
                /\ io_last' = History(op, flag, read, RetOk(st.corrected.map))
                /\ io_returned' = ReturnedSoFar(st.corrected.map)

\* src/disk.rs DiskIOCountersCollector::disk_io_counters_perdisk(nowrap)
disk_rs_disk_io_counters_perdisk ==
    /\ variant = "disk_rs" /\ CanCall
    /\ \E read \in ReaderOutcomes(variant), flag \in BOOLEAN :
          Call("disk_io_counters_perdisk", flag, read, ~flag,
               io_corrected.map = EmptyMap)

\* src/network.rs NetIOCountersCollector::net_io_counters_pernic(nowrap)
network_rs_net_io_counters_pernic ==
    /\ variant = "network_rs" /\ CanCall
    /\ \E read \in ReaderOutcomes(variant), flag \in BOOLEAN :
          Call("net_io_counters_pernic", flag, read, ~flag,
               io_prev.map = EmptyMap)

\* src/disk/disk_io_counters.rs DiskIoCountersCollector::disk_io_counters_perdisk
disk_io_counters_perdisk ==
    /\ variant = "disk_io_counters_rs" /\ CanCall
    /\ \E read \in ReaderOutcomes(variant) :
          Call("disk_io_counters_perdisk", TRUE, read, FALSE,
               ~(io_prev.some /\ io_corrected.some))

\* src/disk/sys/linux/disk_io_counters.rs, the same method
sys_linux_disk_io_counters_perdisk ==
    /\ variant = "sys_linux_disk" /\ CanCall
    /\ \E read \in ReaderOutcomes(variant) :
          Call("disk_io_counters_perdisk", TRUE, read, FALSE,
               ~(io_prev.some /\ io_corrected.some))

\* src/network/sys/linux/net_io_counters.rs NetIoCountersCollector::net_io_counters_pernic
sys_linux_net_io_counters_pernic ==
    /\ variant = "sys_linux_net" /\ CanCall
    /\ \E read \in ReaderOutcomes(variant) :
          Call("net_io_counters_pernic", TRUE, read, FALSE,
               ~(io_prev.some /\ io_corrected.some))

\* a cache_clear that emptied the last reading but kept the totals
cache_clear_keeping_totals ==
    /\ variant \in LegacyVariants /\ Alive
    /\ io_last.op # "cache_clear"
    /\ io_prev' = Some(EmptyMap)
    /\ io_corrected' = io_corrected
    /\ io_last' = History("cache_clear", TRUE, ReadOk(EmptyMap), RetNone)
    /\ io_returned' = [io_returned EXCEPT !.map = EmptyMap]
    /\ UNCHANGED <<overflow_checks, variant, calls, cpu_vars, proc_vars>>

\* cache_clear of the two legacy collectors
cache_clear ==
    /\ variant \in LegacyVariants /\ Alive
    /\ io_last.op # "cache_clear"
    /\ io_prev' = Some(EmptyMap)
    /\ io_corrected' = Some(EmptyMap)
    /\ io_last' = History("cache_clear", TRUE, ReadOk(EmptyMap), RetNone)
    /\ io_returned' = [io_returned EXCEPT !.map = EmptyMap]
    /\ UNCHANGED <<overflow_checks, variant, calls, cpu_vars, proc_vars>>

-----------------------------------------------------------------------------
(* Delta engine, percentage mode.  A Duration is a whole number of ticks;  *)
(* a Percent is the exact fraction num/den the floating point division     *)
(* approximates: den = 0 is what f64 gives for x / 0.0 (NaN when num = 0,  *)
(* infinite otherwise).  "some" is FALSE for an Option field that is None. *)

CpuVariants == {"cpu_times_percent_rs", "sys_linux_cpu", "linux_cpu_rs"}

CpuFields ==
    {"user", "nice", "system", "idle", "iowait", "irq", "softirq",
     "steal", "guest", "guest_nice"}

Pct(n, d) == [some |-> TRUE, num |-> n, den |-> d]
PctZero == Pct(0, 1)
PctNone == [some |-> FALSE, num |-> 0, den |-> 1]

\* a busy time that left the stolen time out
busy_without_steal(t) == t.user + t.system + t.nice + t.irq + t.softirq

\* a total that left the idle time out
total_busy_only(t) ==
    t.user + t.system + t.nice + t.irq + t.softirq + t.steal

\* CpuTimes::busy, CpuTimes::idle and CpuTimes::total (target_os = "linux")
busy(t) == t.user + t.system + t.nice + t.irq + t.softirq + t.steal
idle(t) == t.idle + t.iowait
total(t) == busy(t) + idle(t)

\* linux/cpu.rs CpuTimes::total_time
total_time(t) ==
    t.user + t.nice + t.system + t.idle + t.iowait + t.irq + t.softirq + t.steal

\* crate::utils::calculate_cpu_percent: the share of total_diff, times 100
calculate_cpu_percent(first, second, total_diff) ==
    Pct(100 * (second - first), total_diff)

\* #[derive(Default)] on CpuTimesPercent: 0.0, and None for the Option fields
CpuTimesPercentDefault ==
    [f \in CpuFields |->
        IF f \in {"steal", "guest", "guest_nice"} THEN PctNone ELSE PctZero]

\* cpu/cpu_times_percent.rs
calculate_cpu_times_percent(first, second) ==
    IF total(first) >= total(second)
    THEN [panic |-> FALSE, pct |-> CpuTimesPercentDefault]
    ELSE [panic |-> FALSE,
          pct |-> [f \in CpuFields |->
                     calculate_cpu_percent(first[f], second[f], total(second) - total(first))]]

\* cpu/sys/linux/cpu_times_percent.rs: Duration - Duration panics when negative
sys_linux_delta_percentage(first, second, total_diff) ==
    [panic |-> second < first, val |-> Pct(100 * (second - first), total_diff)]

sys_linux_calculate_cpu_times_percent(first, second) ==
    LET total_diff == total(second) - total(first)
        d == [f \in CpuFields |-> sys_linux_delta_percentage(first[f], second[f], total_diff)]
    IN  [panic |-> total_diff < 0 \/ \E f \in CpuFields : d[f].panic,
         pct |-> [f \in CpuFields |-> d[f].val]]

\* linux/cpu.rs
delta_percentage(current_value, past_value, total_diff) ==
    IF past_value <= current_value
    THEN IF 100 * (current_value - past_value) > 100 * total_diff
         THEN Pct(100, 1)
         ELSE Pct(100 * (current_value - past_value), total_diff)
    ELSE PctZero

cpu_percent_since(self, past_cpu_times) ==
    IF total_time(self) > total_time(past_cpu_times)
    THEN [panic |-> FALSE,
          pct |-> [f \in CpuFields |->
                     delta_percentage(self[f], past_cpu_times[f],
                                      total_time(self) - total_time(past_cpu_times))]]
    ELSE [panic |-> FALSE, pct |-> [f \in CpuFields |-> PctZero]]

\* the percentage-delta function of the running revision
PercentDelta(v, first, second) ==
    CASE v = "cpu_times_percent_rs" -> calculate_cpu_times_percent(first, second)
      [] v = "sys_linux_cpu" -> sys_linux_calculate_cpu_times_percent(first, second)
      [] v = "linux_cpu_rs" -> cpu_percent_since(second, first)

-----------------------------------------------------------------------------
(* CPU reader (/proc/stat) and the CPU collectors.                         *)

MaxCpus == 2

CpuTimes(user, nice, system, idl, iowait, irq, softirq, steal, guest, guest_nice) ==
    [user |-> user, nice |-> nice, system |-> system, idle |-> idl,
     iowait |-> iowait, irq |-> irq, softirq |-> softirq, steal |-> steal,
     guest |-> guest, guest_nice |-> guest_nice]

\* a base snapshot; a later one with every field advanced; one with the
\* base's total but user up and idle down.  Read in the other order they
\* are a total that went backwards (jitter).
CpuSamples ==
    {CpuTimes(4, 1, 2, 10, 1, 1, 1, 0, 0, 0),
     CpuTimes(6, 1, 3, 14, 2, 1, 1, 1, 1, 0),
     CpuTimes(5, 1, 2, 9, 1, 1, 1, 0, 0, 0)}

PerCpuSamples ==
    {CpuTimes(4, 1, 2, 10, 1, 1, 1, 0, 0, 0),
     CpuTimes(6, 1, 3, 14, 2, 1, 1, 1, 1, 0)}

PerCpuReadings == UNION {[1..n -> PerCpuSamples] : n \in 1..MaxCpus}

NoTimes == CpuTimes(0, 0, 0, 0, 0, 0, 0, 0, 0, 0)
NoPercent == [f \in CpuFields |-> PctZero]

CpuReadOne(t) == [ok |-> TRUE, one |-> t, many |-> <<>>, err |-> "none"]
CpuReadMany(ts) == [ok |-> TRUE, one |-> NoTimes, many |-> ts, err |-> "none"]
CpuReadErr(e) == [ok |-> FALSE, one |-> NoTimes, many |-> <<>>, err |-> e]

CpuRetOne(p) == [kind |-> "ok", one |-> p, many |-> <<>>, err |-> "none"]
CpuRetMany(ps) == [kind |-> "ok", one |-> NoPercent, many |-> ps, err |-> "none"]
CpuRetErr(e) == [kind |-> "err", one |-> NoPercent, many |-> <<>>, err |-> e]
CpuRetPanic == [kind |-> "panic", one |-> NoPercent, many |-> <<>>, err |-> "none"]
CpuRetNone == [kind |-> "none", one |-> NoPercent, many |-> <<>>, err |-> "none"]

\* `let current = cpu_times()?;`
CpuPropagate(e) == CpuRetErr(e)

CpuReaderFailed(v, e) ==
    IF e = "ShortLine"
    THEN IF PanicsOnShortLine(v) THEN CpuRetPanic ELSE CpuPropagate("InvalidData")
    ELSE CpuPropagate(e)

CpuHistory(op, read, ret) == [op |-> op, read |-> read, result |-> ret]

CpuAlive == cpu_last.result.kind # "panic"

CpuCanCall == variant \in CpuVariants /\ CpuAlive /\ calls < MaxCalls

\* the callers of a collector that is shared, and a caller that is in no call
Callers == {"c1", "c2"}
IdleCaller == [pc |-> "idle", current |-> NoTimes, seen |-> NoTimes]

\* `&mut self`: the collector has one owner, which makes one call at a time
SingleOwner ==
    /\ mutex = "single owner"
    /\ callers = [c \in Callers |-> IdleCaller]

\* CpuTimesPercentCollector::new / CpuPercentCollector::new took the baseline
CpuInit ==
    /\ cpu_times \in CpuSamples
    /\ cpu_times_percpu \in PerCpuReadings
    /\ cpu_last = CpuHistory("new", CpuReadOne(cpu_times), CpuRetNone)
    /\ SingleOwner

\* cpu_times_percent of the three revisions: read, diff against the stored
\* snapshot, store the fresh one
cpu_times_percent ==
    /\ CpuCanCall
    /\ \E read \in {CpuReadOne(t) : t \in CpuSamples} \cup {CpuReadErr(e) : e \in ReaderFailures} :
          LET r == PercentDelta(variant, cpu_times, read.one)
          IN  /\ calls' = calls + 1
              /\ UNCHANGED <<overflow_checks, variant, io_vars, cpu_times_percpu,
                             share_vars, proc_vars>>
              /\ IF ~read.ok
                 THEN /\ cpu_last' = CpuHistory("cpu_times_percent", read, CpuReaderFailed(variant, read.err))
                      /\ UNCHANGED cpu_times
                 ELSE IF r.panic
                 THEN /\ cpu_last' = CpuHistory("cpu_times_percent", read, CpuRetPanic)
                      /\ UNCHANGED cpu_times
                 ELSE /\ cpu_times' = read.one
                      /\ cpu_last' = CpuHistory("cpu_times_percent", read, CpuRetOne(r.pct))

Min(a, b) == IF a < b THEN a ELSE b

\* cpu_times_percent_percpu: the newer revisions zip the stored and the fresh
\* vector, linux/cpu.rs indexes the stored vector by the fresh one's positions
cpu_times_percent_percpu ==
    /\ CpuCanCall
    /\ \E read \in {CpuReadMany(ts) : ts \in PerCpuReadings} \cup {CpuReadErr(e) : e \in ReaderFailures} :
          LET n == IF variant = "linux_cpu_rs"
                   THEN Len(read.many)
                   ELSE Min(Len(cpu_times_percpu), Len(read.many))
              out_of_bounds == n > Len(cpu_times_percpu)
              r == [i \in 1..Min(n, Len(cpu_times_percpu)) |->
                      PercentDelta(variant, cpu_times_percpu[i], read.many[i])]
          IN  /\ calls' = calls + 1
              /\ UNCHANGED <<overflow_checks, variant, io_vars, cpu_times,
                             share_vars, proc_vars>>
              /\ IF ~read.ok
                 THEN /\ cpu_last' = CpuHistory("cpu_times_percent_percpu", read, CpuReaderFailed(variant, read.err))
                      /\ UNCHANGED cpu_times_percpu
                 ELSE IF out_of_bounds \/ \E i \in DOMAIN r : r[i].panic
                 THEN /\ cpu_last' = CpuHistory("cpu_times_percent_percpu", read, CpuRetPanic)
                      /\ UNCHANGED cpu_times_percpu
                 ELSE /\ cpu_times_percpu' = read.many
                      /\ cpu_last' = CpuHistory("cpu_times_percent_percpu", read,
                                                CpuRetMany([i \in DOMAIN r |-> r[i].pct]))

\* a CPU collector that was never constructed
CpuIdle ==
    /\ cpu_times = NoTimes
    /\ cpu_times_percpu = <<>>
    /\ cpu_last = CpuHistory("new", CpuReadOne(NoTimes), CpuRetNone)
    /\ SingleOwner

-----------------------------------------------------------------------------
(* Process identity: src/process/process.rs and                            *)
(* src/process/sys/linux/process.rs.                                       *)

ProcessVariants == {"process_rs", "sys_linux_process"}

MaxTime == 1
MaxBusy == 1

\* pid 1 is init: it runs from boot and never exits; pid 100 comes and goes
Pids == {1, 100}
Mortal == Pids \ {1}

\* "a" is the Process the program works with, "b" one it compares it with
Handles == {"a", "b"}

\* a slot of the kernel's process table; a zombie has exited but keeps its
\* /proc/[pid]/stat until its parent reaps it
NoEntry == [alive |-> FALSE, starttime |-> 0, busy |-> 0, zombie |-> FALSE]
Entry(starttime, cpu) ==
    [alive |-> TRUE, starttime |-> starttime, busy |-> cpu, zombie |-> FALSE]

\* struct Process { pid, create_time, busy, instant }
Process(pid, create_time, cpu, instant) ==
    [pid |-> pid, create_time |-> create_time, busy |-> cpu, instant |-> instant]

NoProcess == [some |-> FALSE, p |-> Process(0, 0, 0, 0)]
Held(p) == [some |-> TRUE, p |-> p]

\* procfs_stat(pid): the process's stat file, or an error when the pid is
\* not in use or the file cannot be read or parsed (readable = FALSE)
procfs_stat(pid, readable) ==
    IF world[pid].alive /\ readable
    THEN [ok |-> TRUE, starttime |-> world[pid].starttime, busy |-> world[pid].busy]
    ELSE [ok |-> FALSE, starttime |-> 0, busy |-> 0]

\* Process::new(pid)
Process_new(pid, readable) ==
    LET stat == procfs_stat(pid, readable)
    IN  IF stat.ok
        THEN [ok |-> TRUE, p |-> Process(pid, stat.starttime, stat.busy, now)]
        ELSE [ok |-> FALSE, p |-> Process(0, 0, 0, 0)]

\* an equality that looked at the pid alone
eq_pid_only(self, other) == self.pid = other.pid

\* impl PartialEq for Process
eq(self, other) ==
    (self.pid = other.pid) /\ (self.create_time = other.create_time)

\* a liveness test that only asked whether the pid is in use
is_running_pid_only(self, resolved) == resolved.ok

\* Process::is_running, given what Process::new(self.pid) returned
is_running(self, resolved) ==
    IF resolved.ok THEN eq(resolved.p, self) ELSE FALSE

\* a replacement test that took an exited process for a replaced one
is_replaced_when_gone(self, resolved) == ~is_running(self, resolved)

\* Process::is_replaced, given what Process::new(self.pid) returned
is_replaced(self, resolved) ==
    IF resolved.ok THEN ~eq(resolved.p, self) ELSE FALSE

\* a replace that refreshed self from every successful lookup
replace_refreshing(v, self, resolved) ==
    [ret |-> resolved.ok /\ ~eq(resolved.p, self),
     self |-> IF resolved.ok THEN resolved.p ELSE self]

\* Process::replace: the value returned and the value self holds afterwards.
\*   process/process.rs            mem::replace(self, p)
\*   process/sys/linux/process.rs  self.create_time = p.create_time
replace(v, self, resolved) ==
    IF resolved.ok /\ ~eq(resolved.p, self)
    THEN [ret |-> TRUE,
          self |-> IF v = "process_rs"
                   THEN resolved.p
                   ELSE [self EXCEPT !.create_time = resolved.p.create_time]]
    ELSE [ret |-> FALSE, self |-> self]

\* the crate's Error values: the variant, the file it names, and the
\* io::Error kind, errno or status code it carries
NoCause == [error |-> "none", path |-> "", code |-> ""]
IoError(kind) == [error |-> "io::Error", path |-> "", code |-> kind]
ReadFile(path, kind) == [error |-> "ReadFile", path |-> path, code |-> kind]
OsError(kind) == [error |-> "OsError", path |-> "", code |-> kind]
MissingData(path) == [error |-> "MissingData", path |-> path, code |-> ""]
ParseInt(path) == [error |-> "ParseInt", path |-> path, code |-> ""]
Errno(errno) == [error |-> "nix::Error", path |-> "", code |-> errno]
Win32Error(code) == [error |-> "Win32Error", path |-> "", code |-> code]
NtError(status) == [error |-> "NtError", path |-> "", code |-> status]
WindowsError(e) == [error |-> "WindowsError", path |-> e.error, code |-> e.code]

\* enum ProcessError, and the other error types a Process operation returns
NoError == [variant |-> "none", pid |-> 0, source |-> NoCause]
NoSuchProcess(pid) == [variant |-> "NoSuchProcess", pid |-> pid, source |-> NoCause]
ZombieProcess(pid) == [variant |-> "ZombieProcess", pid |-> pid, source |-> NoCause]
AccessDenied(pid) == [variant |-> "AccessDenied", pid |-> pid, source |-> NoCause]
PsutilError(pid, source) == [variant |-> "PsutilError", pid |-> pid, source |-> source]
NixError(pid, errno) == [variant |-> "NixError", pid |-> pid, source |-> Errno(errno)]
LastOsError(kind) == [variant |-> "io::Error", pid |-> 0, source |-> IoError(kind)]

\* the process a signal reached
NotSent == [some |-> FALSE, pid |-> 0, starttime |-> 0]
SentTo(pid, starttime) == [some |-> TRUE, pid |-> pid, starttime |-> starttime]

\* the operation just performed: whether its read of /proc/[pid]/stat
\* succeeded, the boolean it returned, the percentage cpu_percent returned,
\* the error it returned, the platform error behind that error, and the
\* process its signal reached
ProcHistory(op, h, resolved_ok, ret, pct) ==
    [op |-> op, self |-> h, ok |-> resolved_ok, ret |-> ret, pct |-> pct,
     err |-> NoError, raised |-> NoCause, sent |-> NotSent]

\* no Process operation was the last step
NoOperation == ProcHistory("none", "a", FALSE, FALSE, PctZero)

\* no enumeration was made and no ProcessCollector constructed
NotListed == [kind |-> "none", err |-> NoError, pids |-> {}, entries |-> <<>>]
NoCollector == [some |-> FALSE, processes |-> <<>>]

EnumIdle == listed = NotListed /\ collector = NoCollector

\* winapi INVALID_HANDLE_VALUE, (HANDLE)-1
INVALID_HANDLE_VALUE == -1

\* the SafeHandle values the program may hold at a time
Objects == {"s1", "s2", "s3"}

\* struct SafeHandle { raw_handle }, and a name that holds no value (never
\* assigned, or dropped)
SafeHandle(raw_handle) == [live |-> TRUE, raw_handle |-> raw_handle]
NoObject == [live |-> FALSE, raw_handle |-> INVALID_HANDLE_VALUE]

HandleHistory(op, self, other, closed, failed) ==
    [op |-> op, self |-> self, other |-> other, closed |-> closed, failed |-> failed]

NoHandleOperation == HandleHistory("none", "s1", "s1", INVALID_HANDLE_VALUE, FALSE)

\* no handle is open and no SafeHandle held
WinIdle ==
    /\ open_handles = {}
    /\ objects = [o \in Objects |-> NoObject]
    /\ handle_last = NoHandleOperation

\* a line as a parser sees it: the number of whitespace-separated fields,
\* and whether each of them parses as the type its place wants
Line(fields, numeric) == [fields |-> fields, numeric |-> numeric]

Parsed(kind, err, present) == [kind |-> kind, err |-> err, present |-> present]

NotParsed == Parsed("none", "none", {})

\* no parser was given anything
ParseIdle == line = Line(0, TRUE) /\ parsed = NotParsed

ProcIdle ==
    /\ world = [pid \in Pids |-> NoEntry]
    /\ now = 0
    /\ procs = [h \in Handles |-> NoProcess]
    /\ proc_last = NoOperation
    /\ EnumIdle
    /\ WinIdle
    /\ ParseIdle

ProcInit ==
    /\ world \in {w \in [Pids -> {NoEntry, Entry(0, 0)}] : w[1].alive}
    /\ now = 0
    /\ procs = [h \in Handles |-> NoProcess]
    /\ proc_last = NoOperation
    /\ EnumIdle
    /\ WinIdle
    /\ ParseIdle

ProcFrame ==
    UNCHANGED <<overflow_checks, variant, calls, io_vars, cpu_vars, enum_vars, win_vars, parse_vars>>

\* the kernel: a process starts under a free pid, runs, exits; time passes
Spawn ==
    \E pid \in Pids :
        /\ ~world[pid].alive
        /\ world' = [world EXCEPT ![pid] = Entry(now, 0)]
        /\ proc_last' = NoOperation
        /\ UNCHANGED <<now, procs>>
        /\ ProcFrame

Exit ==
    \E pid \in Mortal :
        /\ world[pid].alive
        /\ world' = [world EXCEPT ![pid] = NoEntry]
        /\ proc_last' = NoOperation
        /\ UNCHANGED <<now, procs>>
        /\ ProcFrame

Run ==
    \E pid \in Pids :
        /\ world[pid].alive /\ world[pid].busy < MaxBusy
        /\ world' = [world EXCEPT ![pid].busy = @ + 1]
        /\ proc_last' = NoOperation
        /\ UNCHANGED <<now, procs>>
        /\ ProcFrame

Tick ==
    /\ now < MaxTime
    /\ now' = now + 1
    /\ proc_last' = NoOperation
    /\ UNCHANGED <<world, procs>>
    /\ ProcFrame

\* let h = Process::new(pid)?
new ==
    \E h \in Handles, pid \in Pids, readable \in BOOLEAN :
        LET r == Process_new(pid, readable)
        IN  /\ ~procs[h].some
            /\ procs' = IF r.ok THEN [procs EXCEPT ![h] = Held(r.p)] ELSE procs
            /\ proc_last' = ProcHistory("new", h, r.ok, r.ok, PctZero)
            /\ UNCHANGED <<world, now>>
            /\ ProcFrame

\* h.is_running()
proc_is_running ==
    \E h \in {"a"}, readable \in BOOLEAN :
        LET r == Process_new(procs[h].p.pid, readable)
        IN  /\ procs[h].some
            /\ proc_last' = ProcHistory("is_running", h, r.ok, is_running(procs[h].p, r), PctZero)
            /\ UNCHANGED <<world, now, procs>>
            /\ ProcFrame

\* h.is_replaced()
proc_is_replaced ==
    \E h \in {"a"}, readable \in BOOLEAN :
        LET r == Process_new(procs[h].p.pid, readable)
        IN  /\ procs[h].some
            /\ proc_last' = ProcHistory("is_replaced", h, r.ok, is_replaced(procs[h].p, r), PctZero)
            /\ UNCHANGED <<world, now, procs>>
            /\ ProcFrame

\* h.replace()
proc_replace ==
    \E h \in {"a"}, readable \in BOOLEAN :
        LET r == Process_new(procs[h].p.pid, readable)
            out == replace(variant, procs[h].p, r)
        IN  /\ procs[h].some
            /\ procs' = [procs EXCEPT ![h] = Held(out.self)]
            /\ proc_last' = ProcHistory("replace", h, r.ok, out.ret, PctZero)
            /\ UNCHANGED <<world, now>>
            /\ ProcFrame

\* a == b
proc_eq ==
    /\ procs["a"].some /\ procs["b"].some
    /\ proc_last' = ProcHistory("eq", "a", TRUE, eq(procs["a"].p, procs["b"].p), PctZero)
    /\ UNCHANGED <<world, now, procs>>
    /\ ProcFrame

\* a cpu_percent that measured but did not store what it measured
proc_cpu_percent_keeping_baseline ==
    \E h \in {"a"}, readable \in BOOLEAN :
        LET stat == procfs_stat(procs[h].p.pid, readable)
            percent == calculate_cpu_percent(procs[h].p.busy, stat.busy,
                                             now - procs[h].p.instant)
        IN  /\ procs[h].some
            /\ proc_last' = ProcHistory("cpu_percent", h, stat.ok, stat.ok,
                                         IF stat.ok THEN percent ELSE PctZero)
            /\ UNCHANGED <<world, now, procs>>
            /\ ProcFrame

\* h.cpu_percent(): the share of the time since the stored instant the
\* process was busy; the stored busy time and instant move to the fresh ones
proc_cpu_percent ==
    \E h \in {"a"}, readable \in BOOLEAN :
        LET stat == procfs_stat(procs[h].p.pid, readable)
            percent == calculate_cpu_percent(procs[h].p.busy, stat.busy,
                                             now - procs[h].p.instant)
        IN  /\ procs[h].some
            /\ procs' = IF stat.ok
                         THEN [procs EXCEPT ![h].p.busy = stat.busy, ![h].p.instant = now]
                         ELSE procs
            /\ proc_last' = ProcHistory("cpu_percent", h, stat.ok, stat.ok,
                                         IF stat.ok THEN percent ELSE PctZero)
            /\ UNCHANGED <<world, now>>
            /\ ProcFrame

ProcessInit ==
    /\ overflow_checks = FALSE
    /\ variant \in ProcessVariants
    /\ calls = 0
    /\ IoInit
    /\ CpuIdle
    /\ ProcInit

ProcessNext ==
    \/ Spawn
    \/ Exit
    \/ Run
    \/ Tick
    \/ new
    \/ proc_is_running
    \/ proc_is_replaced
    \/ proc_replace
    \/ proc_eq
    \/ proc_cpu_percent

SpecProcess == ProcessInit /\ [][ProcessNext]_vars

-----------------------------------------------------------------------------
(* Process errors and signals: src/process/errors.rs, src/windows_util.rs, *)
(* src/process/sys/linux/process.rs, src/process/os/linux/procfs and the   *)
(* older src/process.rs.                                                   *)

ErrorVariants == ProcessVariants \cup {"legacy_process_rs", "sys_windows_process"}

IoKinds == {"NotFound", "PermissionDenied", "InvalidData"}
Signals == {"SIGCONT", "SIGKILL"}
Win32Codes == {"ERROR_ACCESS_DENIED", "ERROR_INVALID_PARAMETER", "ERROR_PARTIAL_COPY"}
NtStatuses == {"STATUS_ACCESS_DENIED", "STATUS_INVALID_CID", "STATUS_INFO_LENGTH_MISMATCH"}
WindowsOsErrors == {Win32Error(c) : c \in Win32Codes} \cup {NtError(s) : s \in NtStatuses}

\* io_error_to_process_error(e, pid)
io_error_to_process_error(e, pid) ==
    CASE e.code = "NotFound" -> NoSuchProcess(pid)
      [] e.code = "PermissionDenied" -> AccessDenied(pid)
      [] OTHER -> PsutilError(pid, OsError(e.code))

\* psutil_error_to_process_error(e, pid)
psutil_error_to_process_error(e, pid) ==
    IF e.error \in {"ReadFile", "OsError"}
    THEN io_error_to_process_error(IoError(e.code), pid)
    ELSE PsutilError(pid, e)

\* windows_error_to_process_error(pid, e)
windows_error_to_process_error(pid, e) ==
    CASE e.error = "Win32Error" /\ e.code = "ERROR_ACCESS_DENIED" -> AccessDenied(pid)
      [] e.error = "Win32Error" /\ e.code = "ERROR_INVALID_PARAMETER" -> NoSuchProcess(pid)
      [] e.error = "NtError" /\ e.code = "STATUS_ACCESS_DENIED" -> AccessDenied(pid)
      [] e.error = "NtError" /\ e.code = "STATUS_INVALID_CID" -> NoSuchProcess(pid)
      [] OTHER -> PsutilError(pid, WindowsError(e))

\* kill(2) on process table w: no such process, not permitted, or delivered
sys_kill(w, pid, permitted) ==
    IF ~w[pid].alive THEN [errno |-> "ESRCH", sent |-> NotSent]
    ELSE IF ~permitted THEN [errno |-> "EPERM", sent |-> NotSent]
    ELSE [errno |-> "", sent |-> SentTo(pid, w[pid].starttime)]

\* what a delivered signal does: SIGKILL ends every process but init, and
\* the process stays a zombie until it is reaped
Delivered(w, sent, signal) ==
    IF sent.some /\ signal = "SIGKILL" /\ sent.pid \in Mortal
    THEN [w EXCEPT ![sent.pid].zombie = TRUE]
    ELSE w

\* what the kernel may do between two system calls of one operation: nothing,
\* the process exits, or it exits and its pid goes to a new process
Races == {"none", "exit", "reuse"}

Between(w, pid, race) ==
    CASE race = "exit" -> [w EXCEPT ![pid] = NoEntry]
      [] race = "reuse" -> [w EXCEPT ![pid] = Entry(now, 0)]
      [] OTHER -> w

CanRace(pid, race) == race = "none" \/ (pid \in Mortal /\ world[pid].alive)

\* Process::send_signal of process/sys/linux/process.rs: the is_running()
\* check, then kill(2) with its error put into NixError { pid }
send_signal(self, resolved, race, permitted, signal) ==
    IF ~is_running(self, resolved)
    THEN [err |-> NoSuchProcess(self.pid), raised |-> NoCause,
          sent |-> NotSent, world |-> world]
    ELSE LET w == Between(world, self.pid, race)
             k == sys_kill(w, self.pid, permitted)
         IN  [err |-> IF k.errno = "" THEN NoError ELSE NixError(self.pid, k.errno),
              raised |-> IF k.errno = "" THEN NoCause ELSE Errno(k.errno),
              sent |-> k.sent,
              world |-> Delivered(w, k.sent, signal)]

\* Process::kill of process.rs: kill(self.pid, SIGKILL), 0 => Ok(()),
\* -1 => Err(Error::last_os_error())
legacy_kill(self, permitted) ==
    LET k == sys_kill(world, self.pid, permitted)
    IN  [err |-> IF k.errno = "" THEN NoError ELSE LastOsError(k.errno),
         raised |-> IF k.errno = "" THEN NoCause ELSE Errno(k.errno),
         sent |-> k.sent,
         world |-> Delivered(world, k.sent, "SIGKILL")]

\* fs::read_link("/proc/[pid]/exe"): the link of a pid not in use is not
\* found, a zombie has none to show, a running process may refuse it
ReadLinkOutcomes(pid) ==
    IF ~world[pid].alive THEN {"NotFound"}
    ELSE IF world[pid].zombie THEN {"NotFound", "PermissionDenied"}
    ELSE {"ok"} \cup IoKinds

\* Process::exe
exe(self, link) ==
    IF link = "ok" THEN NoError ELSE io_error_to_process_error(IoError(link), self.pid)

\* read_file("/proc/[pid]/statm") and ProcfsStatm::from_str: NoCause stands
\* for a file that was read and parsed
StatmOutcomes(pid) ==
    IF ~world[pid].alive THEN {ReadFile("statm", "NotFound")}
    ELSE {NoCause, MissingData("statm"), ParseInt("statm")}
         \cup {ReadFile("statm", k) : k \in IoKinds}

\* procfs_statm(pid)
procfs_statm(pid, outcome) ==
    IF outcome = NoCause THEN NoError ELSE psutil_error_to_process_error(outcome, pid)

\* what an operation returned goes into the record of the last operation
Returned(op, h, resolved_ok, out) ==
    [ProcHistory(op, h, resolved_ok, out.err = NoError, PctZero)
        EXCEPT !.err = out.err, !.raised = out.raised, !.sent = out.sent]

\* a process exits and waits for its parent to reap it
Die ==
    \E pid \in Mortal :
        /\ world[pid].alive /\ ~world[pid].zombie
        /\ world' = [world EXCEPT ![pid].zombie = TRUE]
        /\ proc_last' = NoOperation
        /\ UNCHANGED <<now, procs>>
        /\ ProcFrame

\* h.send_signal(signal)
proc_send_signal ==
    \E h \in {"a"}, readable \in BOOLEAN, race \in Races,
       permitted \in BOOLEAN, signal \in Signals :
        LET self == procs[h].p
            r == Process_new(self.pid, readable)
            out == send_signal(self, r, race, permitted, signal)
        IN  /\ variant = "sys_linux_process"
            /\ procs[h].some
            /\ CanRace(self.pid, race)
            /\ world' = out.world
            /\ proc_last' = Returned("send_signal", h, r.ok, out)
            /\ UNCHANGED <<now, procs>>
            /\ ProcFrame

\* h.kill()
proc_kill ==
    \E h \in {"a"}, readable \in BOOLEAN, race \in Races, permitted \in BOOLEAN :
        LET self == procs[h].p
            r == Process_new(self.pid, readable)
            out == IF variant = "legacy_process_rs"
                   THEN legacy_kill(self, permitted)
                   ELSE send_signal(self, r, race, permitted, "SIGKILL")
        IN  /\ variant \in {"legacy_process_rs", "sys_linux_process"}
            /\ procs[h].some
            /\ IF variant = "legacy_process_rs"
               THEN readable /\ race = "none"
               ELSE CanRace(self.pid, race)
            /\ world' = out.world
            /\ proc_last' = Returned("kill", h, r.ok, out)
            /\ UNCHANGED <<now, procs>>
            /\ ProcFrame

\* h.exe()
proc_exe ==
    \E h \in {"a"} :
        /\ variant = "sys_linux_process"
        /\ procs[h].some
        /\ \E link \in ReadLinkOutcomes(procs[h].p.pid) :
               proc_last' = Returned("exe", h, link = "ok",
                                     [err |-> exe(procs[h].p, link),
                                      raised |-> IF link = "ok" THEN NoCause ELSE IoError(link),
                                      sent |-> NotSent])
        /\ UNCHANGED <<world, now, procs>>
        /\ ProcFrame

\* h.procfs_statm()
proc_procfs_statm ==
    \E h \in {"a"} :
        /\ variant = "process_rs"
        /\ procs[h].some
        /\ \E outcome \in StatmOutcomes(procs[h].p.pid) :
               proc_last' = Returned("procfs_statm", h, outcome = NoCause,
                                     [err |-> procfs_statm(procs[h].p.pid, outcome),
                                      raised |-> outcome,
                                      sent |-> NotSent])
        /\ UNCHANGED <<world, now, procs>>
        /\ ProcFrame

\* an accessor of process/sys/windows/process.rs whose system call fails
windows_accessor ==
    \E h \in {"a"}, e \in WindowsOsErrors :
        /\ variant = "sys_windows_process"
        /\ procs[h].some
        /\ proc_last' = Returned("windows_accessor", h, FALSE,
                                 [err |-> windows_error_to_process_error(procs[h].p.pid, e),
                                  raised |-> e,
                                  sent |-> NotSent])
        /\ UNCHANGED <<world, now, procs>>
        /\ ProcFrame

ErrorsInit ==
    /\ overflow_checks = FALSE
    /\ variant \in ErrorVariants
    /\ calls = 0
    /\ IoInit
    /\ CpuIdle
    /\ ProcInit

ErrorsNext ==
    \/ Spawn
    \/ Exit
    \/ Die
    \/ Tick
    \/ new
    \/ proc_send_signal
    \/ proc_kill
    \/ proc_exe
    \/ proc_procfs_statm
    \/ windows_accessor

SpecErrors == ErrorsInit /\ [][ErrorsNext]_vars

-----------------------------------------------------------------------------
(* Enumerating all processes: processes() of src/process/process.rs and    *)
(* src/process/sys/linux/process.rs, all() of the older src/process.rs,    *)
(* and the ProcessCollector of src/process/collector.rs.                   *)

EnumVariants == {"process_rs", "sys_linux_process", "legacy_process_rs"}

\* fs::read_dir("/proc"): the directory is listed, or the call fails
DirOutcomes == {"ok", "PermissionDenied"}

\* pids(): the numeric entries of /proc
pids == {pid \in Pids : world[pid].alive}

\* the processes that may exit after /proc was listed and before their stat
\* file is read
MayVanish == SUBSET (pids \cap Mortal)

\* one element of the Vec<ProcessResult<Process>>
EntryOk(p) == [ok |-> TRUE, p |-> p, err |-> NoError]
EntryErr(e) == [ok |-> FALSE, p |-> Process(0, 0, 0, 0), err |-> e]

\* Process::new(pid) during an enumeration: the stat file of a process that
\* has exited meanwhile is not found
new_listed(pid, vanished) ==
    IF pid \in vanished
    THEN EntryErr(io_error_to_process_error(IoError("NotFound"), pid))
    ELSE EntryOk(Process_new(pid, TRUE).p)

Listed(kind, err, listing, entries) ==
    [kind |-> kind, err |-> err, pids |-> listing, entries |-> entries]

\* processes(): pids()?.into_iter().map(Process::new).collect()
processes(dir, vanished) ==
    IF dir # "ok" THEN Listed("err", LastOsError(dir), {}, <<>>)
    ELSE Listed("ok", NoError, pids, [pid \in pids |-> new_listed(pid, vanished)])

\* all() of process.rs: processes.push(try!(Process::new(pid))), so the first
\* process that cannot be read ends the call with its io::Error
all(dir, vanished) ==
    IF dir # "ok" THEN Listed("err", LastOsError(dir), {}, <<>>)
    ELSE IF vanished # {} THEN Listed("err", LastOsError("NotFound"), pids, <<>>)
    ELSE Listed("ok", NoError, pids, [pid \in pids |-> new_listed(pid, vanished)])

\* the process table once the processes of `vanished` have exited
Vanish(vanished) == [pid \in Pids |-> IF pid \in vanished THEN NoEntry ELSE world[pid]]

\* .filter_map(|process| process.ok()): the processes that were read
Oks(l) == {pid \in DOMAIN l.entries : l.entries[pid].ok}

Collector(m) == [some |-> TRUE, processes |-> m]

\* ProcessCollector::new
ProcessCollector_new(dir, vanished) ==
    LET l == processes(dir, vanished)
    IN  [ret |-> l,
         self |-> IF l.kind = "ok"
                  THEN Collector([pid \in Oks(l) |-> l.entries[pid].p])
                  ELSE NoCollector]

\* ProcessCollector::update, "remove dead processes": the pids kept by
\* .filter(|(_pid, process)| process.is_running())
to_remove(self) ==
    {pid \in DOMAIN self.processes :
        is_running(self.processes[pid], Process_new(pid, TRUE))}

\* ProcessCollector::update: the removal, then, unless processes() fails,
\* "add new processes and replace processes with reused PIDs"
ProcessCollector_update(self, dir, vanished) ==
    LET kept == [pid \in DOMAIN self.processes \ to_remove(self) |-> self.processes[pid]]
        l == processes(dir, vanished)
        inserted == {pid \in Oks(l) :
                        pid \notin DOMAIN kept \/ ~eq(kept[pid], l.entries[pid].p)}
    IN  [ret |-> l,
         self |-> IF l.kind = "ok"
                  THEN Collector([pid \in DOMAIN kept \cup inserted |->
                                    IF pid \in inserted THEN l.entries[pid].p ELSE kept[pid]])
                  ELSE Collector(kept)]

\* let all = processes()?
proc_processes ==
    \E dir \in DirOutcomes, vanished \in MayVanish :
        /\ variant \in {"process_rs", "sys_linux_process"}
        /\ listed' = processes(dir, vanished)
        /\ world' = IF dir = "ok" THEN Vanish(vanished) ELSE world
        /\ proc_last' = ProcHistory("processes", "a", dir = "ok", listed'.kind = "ok", PctZero)
        /\ UNCHANGED <<overflow_checks, variant, calls, io_vars, cpu_vars,
                       now, procs, collector, win_vars, parse_vars>>

\* let all = process::all()?
proc_all ==
    \E dir \in DirOutcomes, vanished \in MayVanish :
        /\ variant = "legacy_process_rs"
        /\ listed' = all(dir, vanished)
        /\ world' = IF dir = "ok" THEN Vanish(vanished) ELSE world
        /\ proc_last' = ProcHistory("all", "a", dir = "ok", listed'.kind = "ok", PctZero)
        /\ UNCHANGED <<overflow_checks, variant, calls, io_vars, cpu_vars,
                       now, procs, collector, win_vars, parse_vars>>

\* let collector = ProcessCollector::new()?
collector_new ==
    \E dir \in DirOutcomes, vanished \in MayVanish :
        LET out == ProcessCollector_new(dir, vanished)
        IN  /\ variant = "process_rs"
            /\ ~collector.some
            /\ collector' = out.self
            /\ listed' = out.ret
            /\ world' = IF dir = "ok" THEN Vanish(vanished) ELSE world
            /\ proc_last' = ProcHistory("ProcessCollector::new", "a", dir = "ok",
                                         out.ret.kind = "ok", PctZero)
            /\ UNCHANGED <<overflow_checks, variant, calls, io_vars, cpu_vars,
                           now, procs, win_vars, parse_vars>>

\* collector.update()
collector_update ==
    \E dir \in DirOutcomes, vanished \in MayVanish :
        LET out == ProcessCollector_update(collector, dir, vanished)
        IN  /\ variant = "process_rs"
            /\ collector.some
            /\ collector' = out.self
            /\ listed' = out.ret
            /\ world' = IF dir = "ok" THEN Vanish(vanished) ELSE world
            /\ proc_last' = ProcHistory("ProcessCollector::update", "a", dir = "ok",
                                         out.ret.kind = "ok", PctZero)
            /\ UNCHANGED <<overflow_checks, variant, calls, io_vars, cpu_vars,
                           now, procs, win_vars, parse_vars>>

EnumInit ==
    /\ overflow_checks = FALSE
    /\ variant \in EnumVariants
    /\ calls = 0
    /\ IoInit
    /\ CpuIdle
    /\ ProcInit

EnumNext ==
    \/ Spawn
    \/ Exit
    \/ Run
    \/ Tick
    \/ proc_processes
    \/ proc_all
    \/ collector_new
    \/ collector_update

SpecEnum == EnumInit /\ [][EnumNext]_vars

-----------------------------------------------------------------------------
(* Platform handles: SafeHandle of src/windows_util.rs.                    *)

MaxHandles == 3

\* the values the operating system gives to handles; a closed handle's value
\* may be given out again
HandleValues == 1..MaxHandles

FreeValues == HandleValues \ open_handles

\* SafeHandle::is_valid
is_valid(self) == self.raw_handle # INVALID_HANDLE_VALUE

\* a clone that copied the raw handle
clone_sharing(self, duplicate) == SafeHandle(self.raw_handle)

\* impl Clone for SafeHandle: `duplicate` is the handle DuplicateHandle gave,
\* or INVALID_HANDLE_VALUE when it returned 0
clone(self, duplicate) ==
    IF is_valid(self) THEN SafeHandle(duplicate) ELSE SafeHandle(INVALID_HANDLE_VALUE)

\* CloseHandle(raw_handle): the handle table afterwards, and whether the call
\* failed because no such handle was open
CloseHandle(raw_handle) ==
    [open |-> open_handles \ {raw_handle}, failed |-> raw_handle \notin open_handles]

\* impl Drop for SafeHandle
drop(self) ==
    IF is_valid(self)
    THEN [closed |-> self.raw_handle, open |-> CloseHandle(self.raw_handle).open,
          failed |-> CloseHandle(self.raw_handle).failed]
    ELSE [closed |-> INVALID_HANDLE_VALUE, open |-> open_handles, failed |-> FALSE]

WinFrame ==
    UNCHANGED <<overflow_checks, variant, calls, io_vars, cpu_vars,
                world, now, procs, proc_last, enum_vars, parse_vars>>

\* let o = SafeHandle::from_raw_handle(OpenProcess(..)): the system opened a
\* handle, or the call failed and the value holds INVALID_HANDLE_VALUE
from_raw_handle ==
    \E o \in Objects, raw_handle \in FreeValues \cup {INVALID_HANDLE_VALUE} :
        /\ ~objects[o].live
        /\ objects' = [objects EXCEPT ![o] = SafeHandle(raw_handle)]
        /\ open_handles' = open_handles \cup ({raw_handle} \cap HandleValues)
        /\ handle_last' = HandleHistory("from_raw_handle", o, o, INVALID_HANDLE_VALUE, FALSE)
        /\ WinFrame

\* let other = o.clone()
handle_clone ==
    \E o \in Objects, other \in Objects,
       duplicate \in FreeValues \cup {INVALID_HANDLE_VALUE} :
        LET out == clone(objects[o], duplicate)
        IN  /\ objects[o].live /\ ~objects[other].live
            /\ ~is_valid(objects[o]) => duplicate = INVALID_HANDLE_VALUE
            /\ objects' = [objects EXCEPT ![other] = out]
            /\ open_handles' = open_handles \cup ({duplicate} \cap HandleValues)
            /\ handle_last' = HandleHistory("clone", o, other, INVALID_HANDLE_VALUE, FALSE)
            /\ WinFrame

\* drop(o)
handle_drop ==
    \E o \in Objects :
        LET out == drop(objects[o])
        IN  /\ objects[o].live
            /\ objects' = [objects EXCEPT ![o] = NoObject]
            /\ open_handles' = out.open
            /\ handle_last' = HandleHistory("drop", o, o, out.closed, out.failed)
            /\ WinFrame

HandlesInit ==
    /\ overflow_checks = FALSE
    /\ variant = "sys_windows_process"
    /\ calls = 0
    /\ IoInit
    /\ CpuIdle
    /\ ProcIdle

HandlesNext ==
    \/ from_raw_handle
    \/ handle_clone
    \/ handle_drop

SpecHandles == HandlesInit /\ [][HandlesNext]_vars

-----------------------------------------------------------------------------
(* Parsers of kernel text whose lines grew with the kernel version:        *)
(* /proc/[pid]/stat in src/process/os/linux/procfs/stat.rs,                *)
(* src/process/sys/linux/stat.rs and the older src/process.rs, and the cpu *)
(* lines of /proc/stat in src/cpu/sys/linux/cpu_times.rs.                  *)

ParserVariants ==
    {"procfs_stat_rs", "sys_linux_stat_rs", "legacy_process_rs", "sys_linux_cpu_times_rs"}

StatParsers == {"procfs_stat_rs", "sys_linux_stat_rs", "legacy_process_rs"}

MaxExtra == 1

\* the fields a line has had since the oldest kernel, and the place of each
\* field that came later: /proc/[pid]/stat counts pid and comm, a cpu line
\* does not count its label
MinFields(v) == IF v \in StatParsers THEN 41 ELSE 7

Needs(v) ==
    IF v \in StatParsers
    THEN [delayacct_blkio_ticks |-> 42, guest_time_ticks |-> 44, cguest_time_ticks |-> 44,
          start_data |-> 47, end_data |-> 47, start_brk |-> 47,
          arg_start |-> 52, arg_end |-> 52, env_start |-> 52, env_end |-> 52,
          exit_code |-> 52]
    ELSE [steal |-> 8, guest |-> 9, guest_nice |-> 10]

Later(v) == DOMAIN Needs(v)

AllFields(v) == IF v \in StatParsers THEN 52 ELSE 10

\* lines from two fields short of the oldest format to MaxExtra fields more
\* than the newest known one
Lines(v) ==
    {Line(n, numeric) : n \in (MinFields(v) - 2)..(AllFields(v) + MaxExtra),
                        numeric \in BOOLEAN}

\* try_parse!: a field that does not parse
try_parse(l, present) ==
    IF l.numeric THEN Parsed("ok", "none", present) ELSE Parsed("err", "InvalidInput", {})

\* impl FromStr for ProcfsStat (process/os/linux/procfs/stat.rs)
ProcfsStat_from_str(l) ==
    IF l.fields < 41 THEN Parsed("err", "InvalidData", {})
    ELSE try_parse(l, {f \in Later("procfs_stat_rs") : l.fields >= Needs("procfs_stat_rs")[f]})

\* impl FromStr for Stat (process/sys/linux/stat.rs)
Stat_from_str(l) ==
    IF l.fields # 52 THEN Parsed("err", "InvalidData", {})
    ELSE try_parse(l, Later("sys_linux_stat_rs"))

\* Process::new_internal (process.rs)
new_internal(l) ==
    IF l.fields # 52 THEN Parsed("err", "InvalidData", {})
    ELSE try_parse(l, Later("legacy_process_rs"))

\* impl FromStr for CpuTimes (cpu/sys/linux/cpu_times.rs): the values are
\* parsed first, then counted
CpuTimes_from_str(l) ==
    IF ~l.numeric THEN Parsed("err", "InvalidInput", {})
    ELSE IF l.fields # 10 THEN Parsed("err", "InvalidData", {})
    ELSE Parsed("ok", "none",
                {f \in Later("sys_linux_cpu_times_rs") :
                    l.fields >= Needs("sys_linux_cpu_times_rs")[f]})

ParseFrame ==
    UNCHANGED <<overflow_checks, variant, calls, io_vars, cpu_vars,
                world, now, procs, proc_last, enum_vars, win_vars, line>>

\* ProcfsStat::from_str(&data)
parse_procfs_stat ==
    /\ variant = "procfs_stat_rs" /\ parsed = NotParsed
    /\ parsed' = ProcfsStat_from_str(line)
    /\ ParseFrame

\* Stat::from_str(&data)
parse_stat ==
    /\ variant = "sys_linux_stat_rs" /\ parsed = NotParsed
    /\ parsed' = Stat_from_str(line)
    /\ ParseFrame

\* Process::new_internal(&stat, ..)
parse_new_internal ==
    /\ variant = "legacy_process_rs" /\ parsed = NotParsed
    /\ parsed' = new_internal(line)
    /\ ParseFrame

\* CpuTimes::from_str(line)
parse_cpu_times ==
    /\ variant = "sys_linux_cpu_times_rs" /\ parsed = NotParsed
    /\ parsed' = CpuTimes_from_str(line)
    /\ ParseFrame

ParsersInit ==
    /\ overflow_checks = FALSE
    /\ variant \in ParserVariants
    /\ calls = 0
    /\ IoInit
    /\ CpuIdle
    /\ world = [pid \in Pids |-> NoEntry]
    /\ now = 0
    /\ procs = [h \in Handles |-> NoProcess]
    /\ proc_last = NoOperation
    /\ EnumIdle
    /\ WinIdle
    /\ line \in Lines(variant)
    /\ parsed = NotParsed

ParsersNext ==
    \/ parse_procfs_stat
    \/ parse_stat
    \/ parse_new_internal
    \/ parse_cpu_times

SpecParsers == ParsersInit /\ [][ParsersNext]_vars

-----------------------------------------------------------------------------
(* The percentage-delta functions on their own, over every pair of         *)
(* snapshots of a small range.                                             *)

MaxJiffies == 2

\* snapshots in which user, idle and guest took up to MaxJiffies ticks, and
\* nice, steal and guest_nice up to one
DeltaSamples ==
    {CpuTimes(user, nice, 1, idl, 0, 0, 1, steal, guest, guest_nice) :
        user \in 0..MaxJiffies, idl \in 0..MaxJiffies, guest \in 0..MaxJiffies,
        nice \in 0..1, steal \in 0..1, guest_nice \in 0..1}

PercentInit ==
    /\ overflow_checks = FALSE
    /\ variant \in CpuVariants
    /\ calls = 0
    /\ IoInit
    /\ cpu_times \in DeltaSamples
    /\ cpu_times_percpu = <<>>
    /\ cpu_last = CpuHistory("new", CpuReadOne(cpu_times), CpuRetNone)
    /\ SingleOwner
    /\ ProcIdle

\* calculate_cpu_times_percent(first, second) / second.cpu_percent_since(first)
\* applied once, with first the snapshot held and second any other
percent_delta ==
    \E second \in DeltaSamples :
        LET r == PercentDelta(variant, cpu_times, second)
        IN  /\ cpu_last.op = "new"
            /\ cpu_last' = CpuHistory("percent_delta", CpuReadOne(second),
                                      IF r.panic THEN CpuRetPanic ELSE CpuRetOne(r.pct))
            /\ UNCHANGED <<overflow_checks, variant, calls, io_vars,
                           cpu_times, cpu_times_percpu, share_vars, proc_vars>>

PercentNext == percent_delta

SpecPercent == PercentInit /\ [][PercentNext]_vars

-----------------------------------------------------------------------------
(* One CPU collector called by two callers.  cpu_times_percent(&mut self)  *)
(* reads /proc/stat, then diffs against and replaces the stored snapshot;  *)
(* the exclusive borrow, or the Mutex the callers wrap the collector in,   *)
(* keeps a second call out between the two.  Callers that get around it    *)
(* (a raw pointer in unsafe code) run the two steps in any interleaving.   *)

\* /proc/stat at clock tick t: user and idle time grow with the clock; the
\* collector was constructed one tick before the clock started
StatAt(t) == CpuTimes(5 + t, 1, 2, 11 + t, 1, 1, 1, 0, 0, 0)

\* a lock that let a caller in while another one held it
mutex_lock_not_excluding(c) == mutex \in {"free", "unsynchronised"} \cup Callers

\* Mutex::lock, or nothing at all for callers that share without one
mutex_lock(c) == mutex \in {"free", "unsynchronised"}

Locked(c) == IF mutex = "unsynchronised" THEN mutex ELSE c

\* dropping the MutexGuard when the call returns
Unlocked == IF mutex = "unsynchronised" THEN mutex ELSE "free"

SharedInit ==
    /\ overflow_checks = FALSE
    /\ variant \in CpuVariants
    /\ calls = 0
    /\ IoInit
    /\ cpu_times = StatAt(-1)
    /\ cpu_times_percpu = <<>>
    /\ cpu_last = CpuHistory("new", CpuReadOne(cpu_times), CpuRetNone)
    /\ mutex \in {"free", "unsynchronised"}
    /\ callers = [c \in Callers |-> IdleCaller]
    /\ ProcIdle

\* the first half of cpu_times_percent: `let current_cpu_times = cpu_times()?;`
sample_read ==
    \E c \in Callers, ok \in BOOLEAN :
        /\ CpuCanCall
        /\ callers[c].pc = "idle"
        /\ mutex_lock(c)
        /\ calls' = calls + 1
        /\ IF ok
           THEN /\ callers' = [callers EXCEPT ![c] =
                                  [pc |-> "read", current |-> StatAt(now), seen |-> cpu_times]]
                /\ mutex' = Locked(c)
                /\ UNCHANGED cpu_last
           ELSE /\ cpu_last' = CpuHistory("cpu_times_percent", CpuReadErr("NotFound"),
                                          CpuPropagate("NotFound"))
                /\ UNCHANGED <<mutex, callers>>
        /\ UNCHANGED <<cpu_times, world, now, procs, proc_last, enum_vars, win_vars, parse_vars>>
        /\ UNCHANGED <<overflow_checks, variant, io_vars, cpu_times_percpu>>

\* the second half: the diff against self.cpu_times and the assignment to it
sample_store ==
    \E c \in Callers :
        LET r == PercentDelta(variant, cpu_times, callers[c].current)
        IN  /\ CpuAlive
            /\ callers[c].pc = "read"
            /\ callers' = [callers EXCEPT ![c].pc = "idle"]
            /\ mutex' = Unlocked
            /\ IF r.panic
               THEN /\ cpu_last' = CpuHistory("cpu_times_percent",
                                              CpuReadOne(callers[c].current), CpuRetPanic)
                    /\ UNCHANGED cpu_times
               ELSE /\ cpu_times' = callers[c].current
                    /\ cpu_last' = CpuHistory("cpu_times_percent",
                                              CpuReadOne(callers[c].current), CpuRetOne(r.pct))
            /\ UNCHANGED <<calls, world, now, procs, proc_last, enum_vars, win_vars, parse_vars>>
            /\ UNCHANGED <<overflow_checks, variant, io_vars, cpu_times_percpu>>

\* the system's CPU time goes on between the callers' steps
stat_advances ==
    /\ now < MaxTime
    /\ now' = now + 1
    /\ UNCHANGED <<overflow_checks, variant, calls, io_vars, cpu_vars,
                   world, procs, proc_last, enum_vars, win_vars, parse_vars>>

SharedNext ==
    \/ sample_read
    \/ sample_store
    \/ stat_advances

SpecShared == SharedInit /\ [][SharedNext]_vars

-----------------------------------------------------------------------------
(* The collectors' specification: one collector of one revision.           *)

\* the build profile matters to the u64 arithmetic of the disk and network
\* collectors only
CollectorInit ==
    /\ variant \in IoVariants \cup CpuVariants
    /\ overflow_checks \in IF variant \in IoVariants THEN BOOLEAN ELSE {FALSE}
    /\ calls = 0
    /\ IoInit
    /\ IF variant \in CpuVariants THEN CpuInit ELSE CpuIdle
    /\ ProcIdle

CollectorNext ==
    \/ disk_rs_disk_io_counters_perdisk
    \/ network_rs_net_io_counters_pernic
    \/ disk_io_counters_perdisk
    \/ sys_linux_disk_io_counters_perdisk
    \/ sys_linux_net_io_counters_pernic
    \/ cache_clear
    \/ cpu_times_percent
    \/ cpu_times_percent_percpu

SpecCollector == CollectorInit /\ [][CollectorNext]_vars

\* a disk or network collector whose caller keeps what it was given
ReappearInit ==
    /\ variant \in IoVariants
    /\ overflow_checks \in BOOLEAN
    /\ calls = 0
    /\ IoNew
    /\ io_returned = Kept(EmptyMap)
    /\ CpuIdle
    /\ ProcIdle

ReappearNext ==
    \/ disk_rs_disk_io_counters_perdisk
    \/ network_rs_net_io_counters_pernic
    \/ disk_io_counters_perdisk
    \/ sys_linux_disk_io_counters_perdisk
    \/ sys_linux_net_io_counters_pernic
    \/ cache_clear

SpecReappear == ReappearInit /\ [][ReappearNext]_vars

-----------------------------------------------------------------------------
(* Claims about the collectors.                                            *)

\* a disk/network sampling call, and a state-updating one, happened in this step
IoCalled == variant \in IoVariants /\ calls' = calls + 1
IoUpdated == IoCalled /\ io_last'.result.kind = "ok" /\ io_last'.nowrap

\* the entities the step's call had a stored value and a fresh value for
Continuing ==
    DOMAIN io_prev.map \cap DOMAIN io_corrected.map \cap DOMAIN io_last'.read.map

MAX_COUNTER_VALUE == <<0, 0, 1, 0>>

\* the total the nowrap contract prescribes, in u64
ContractTotal(previous_raw, current_raw, corrected_total) ==
    IF U64Ge(current_raw, previous_raw)
    THEN U64Add(corrected_total, U64Sub(current_raw, previous_raw).val).val
    ELSE U64Add(corrected_total,
                U64Add(current_raw, U64Sub(MAX_COUNTER_VALUE, previous_raw).val).val).val

\* C1: in every collector, every field of an entity known from the previous
\* call becomes corrected_total + delta, where delta is current - previous, or
\* current + (2^32 - previous) when the raw counter went down; so a step from
\* 4_294_967_290 to 10 adds 16.
C1_NowrapAddsContractDelta ==
    [][IoUpdated =>
         \A n \in Continuing : \A f \in Fields(variant) :
            io_corrected'.map[n][f] =
                ContractTotal(io_prev.map[n][f], io_last'.read.map[n][f],
                              io_corrected.map[n][f])]_vars

\* C2: for an entity present in two consecutive readings, no field of the
\* corrected value a call returns is below the one the call before returned.
C2_CorrectedNeverDecreases ==
    [][IoUpdated =>
         \A n \in Continuing : \A f \in Fields(variant) :
            U64Ge(io_corrected'.map[n][f], io_corrected.map[n][f])]_vars

-----------------------------------------------------------------------------
(* The first sample of a fresh collector.                                  *)

\* this step is the first sampling call of a freshly constructed collector,
\* and it returned Ok
FirstIoOk ==
    /\ IoCalled /\ calls = 0 /\ io_last.op = "new"
    /\ io_last'.result.kind = "ok"

FirstCpuOk ==
    /\ variant \in CpuVariants /\ calls = 0 /\ calls' = 1
    /\ cpu_last'.result.kind = "ok"

AllZeroCounters(m) == \A n \in DOMAIN m : \A f \in DOMAIN m[n] : m[n][f] = U64Zero

\* every category is 0.0 (an Option category may also be None)
AllZeroPercent(p) == \A f \in DOMAIN p : p[f].some => (p[f].num = 0 /\ p[f].den # 0)

\* C3 as stated: the first sample of a fresh collector stores the fresh
\* snapshot as previous and returns an all-zero result.
C3_FirstSampleAllZero ==
    [][/\ FirstIoOk =>
            /\ AllZeroCounters(io_last'.result.map)
            /\ io_last'.nowrap => io_prev' = Some(io_last'.read.map)
       /\ (FirstCpuOk /\ cpu_last'.op = "cpu_times_percent") =>
            /\ AllZeroPercent(cpu_last'.result.one)
            /\ cpu_times' = cpu_last'.read.one
       /\ (FirstCpuOk /\ cpu_last'.op = "cpu_times_percent_percpu") =>
            /\ \A i \in DOMAIN cpu_last'.result.many :
                  AllZeroPercent(cpu_last'.result.many[i])
            /\ cpu_times_percpu' = cpu_last'.read.many]_vars

\* C3, amended: the first sample of a fresh disk or network collector
\* returns the reading itself, whatever its magnitude, and a state-updating
\* call stores it as both previous and corrected total; the first sample of
\* a CPU collector stores the fresh snapshot and reports the progress since
\* the snapshot new() took, which is not zero when CPU time advanced.
C3_FirstSampleReportsReading ==
    [][/\ FirstIoOk =>
            /\ io_last'.result.map = io_last'.read.map
            /\ io_last'.nowrap =>
                  /\ io_prev' = Some(io_last'.read.map)
                  /\ io_corrected' = Some(io_last'.read.map)
       /\ (FirstCpuOk /\ cpu_last'.op = "cpu_times_percent") =>
            /\ cpu_times' = cpu_last'.read.one
            /\ (/\ total(cpu_last'.read.one) > total(cpu_times)
                 /\ cpu_last'.read.one.user > cpu_times.user)
                   => cpu_last'.result.one.user.num > 0
       /\ (FirstCpuOk /\ cpu_last'.op = "cpu_times_percent_percpu") =>
            cpu_times_percpu' = cpu_last'.read.many]_vars

\* a collector whose only call so far returned a non-zero reading as it was
C3_Witness ==
    /\ variant = "disk_io_counters_rs" /\ calls = 1
    /\ io_last.result.kind = "ok"
    /\ io_last.result.map = io_last.read.map
    /\ \E n \in DOMAIN io_last.result.map :
          io_last.result.map[n].read_bytes = <<58368, 21515, 2, 0>>
    /\ io_prev = Some(io_last.read.map)

-----------------------------------------------------------------------------
(* Percentage delta without progress.                                      *)

\* C4: when the fresh snapshot's total is not above the stored one's (equal
\* snapshots included), the percentage call succeeds and every category of
\* its result is 0: no panic, no division by zero, no NaN, nothing negative.
C4_NoProgressGivesZero ==
    [][(/\ variant \in CpuVariants /\ calls' = calls + 1
       /\ cpu_last'.op = "cpu_times_percent" /\ cpu_last'.read.ok
       /\ total(cpu_last'.read.one) <= total(cpu_times))
       => /\ cpu_last'.result.kind = "ok"
          /\ AllZeroPercent(cpu_last'.result.one)]_vars

-----------------------------------------------------------------------------
(* What a call leaves stored.                                              *)

IoStoredWhatWasRead ==
    /\ io_prev' = Some(io_last'.read.map)
    /\ io_corrected' = Some(io_last'.result.map)

CpuCalledOk ==
    /\ variant \in CpuVariants /\ calls' = calls + 1
    /\ cpu_last'.result.kind = "ok"

CpuStoredWhatWasRead ==
    /\ cpu_last'.op = "cpu_times_percent" => cpu_times' = cpu_last'.read.one
    /\ cpu_last'.op = "cpu_times_percent_percpu" =>
          cpu_times_percpu' = cpu_last'.read.many

\* C5 as stated: after any successful call the stored previous snapshot is
\* the one just read and the stored corrected total is the map just returned.
C5_SuccessStoresReading ==
    [][/\ (IoCalled /\ io_last'.result.kind = "ok") => IoStoredWhatWasRead
       /\ CpuCalledOk => CpuStoredWhatWasRead]_vars

\* C5, amended: the same for every successful call except a legacy call made
\* with nowrap = false, which returns the raw reading and leaves the stored
\* previous and corrected total as they were.
C5_UpdatingCallStoresReading ==
    [][/\ IoUpdated => IoStoredWhatWasRead
       /\ (IoCalled /\ io_last'.result.kind = "ok" /\ ~io_last'.nowrap) =>
              /\ variant \in LegacyVariants
              /\ io_last'.result.map = io_last'.read.map
              /\ UNCHANGED <<io_prev, io_corrected>>
       /\ CpuCalledOk => CpuStoredWhatWasRead]_vars

\* after a correcting call: the reading is stored as previous, the returned
\* totals as corrected, and the two differ
C5_Witness ==
    /\ variant \in IoVariants /\ calls >= 2
    /\ io_last.result.kind = "ok" /\ io_last.nowrap
    /\ io_last.op # "cache_clear"
    /\ io_prev = Some(io_last.read.map)
    /\ io_corrected = Some(io_last.result.map)
    /\ io_prev.map # io_corrected.map

-----------------------------------------------------------------------------
(* Reader failures.                                                        *)

\* the error a failed read amounts to: too few columns is invalid data
ErrorOf(failure) == IF failure = "ShortLine" THEN "InvalidData" ELSE failure

\* C6: when the reader fails (I/O error or unparsable data) the call returns
\* that error, and the stored previous and corrected total are unchanged.
C6_ReaderFailurePropagates ==
    [][/\ (IoCalled /\ ~io_last'.read.ok) =>
              /\ io_last'.result = RetErr(ErrorOf(io_last'.read.err))
              /\ UNCHANGED <<io_prev, io_corrected>>
       /\ (variant \in CpuVariants /\ calls' = calls + 1 /\ ~cpu_last'.read.ok) =>
              /\ cpu_last'.result = CpuRetErr(ErrorOf(cpu_last'.read.err))
              /\ UNCHANGED <<cpu_times, cpu_times_percpu>>]_vars

-----------------------------------------------------------------------------
(* Claims about process identity.                                          *)

\* the Process the last operation was called on, and the process table slot
\* of its pid
Self == procs[proc_last.self].p
Slot == world[Self.pid]

\* C7: is_replaced() is true exactly when looking self.pid up succeeds and
\* finds a live process with another create_time; it is false when the pid
\* is not in use; and where is_replaced() would be true, is_running() is
\* false.
C7_IsReplacedIffOtherProcess ==
    /\ proc_last.op = "is_replaced" =>
          /\ proc_last.ret = (proc_last.ok /\ Slot.alive
                                /\ Slot.starttime # Self.create_time)
          /\ ~Slot.alive => ~proc_last.ret
    /\ (/\ proc_last.op = "is_running" /\ proc_last.ok
         /\ Slot.starttime # Self.create_time) => ~proc_last.ret

\* pid 100 was reused by a process started later: is_replaced() said true
C7_Witness ==
    /\ proc_last.op = "is_replaced" /\ proc_last.ret
    /\ Self.pid = 100 /\ Slot.alive
    /\ Self.create_time = 0 /\ Slot.starttime = 1

\* C8: two Process values are equal exactly when their pid and their
\* create_time are equal, whatever busy time and instant they hold.
C8_EqualIffPidAndCreateTime ==
    proc_last.op = "eq" =>
        proc_last.ret = (/\ procs["a"].p.pid = procs["b"].p.pid
                         /\ procs["a"].p.create_time = procs["b"].p.create_time)

\* two values of the same process, taken at different times, compared equal
C8_Witness ==
    /\ proc_last.op = "eq" /\ proc_last.ret
    /\ procs["a"].p.busy # procs["b"].p.busy
    /\ procs["a"].p.instant # procs["b"].p.instant

\* C9: is_running() is true exactly when looking self.pid up succeeds and
\* finds the process with self's create_time; it is false when the pid is
\* not in use or belongs to a process with another create_time.
C9_IsRunningIffSameProcess ==
    proc_last.op = "is_running" =>
        /\ proc_last.ret = (proc_last.ok /\ Slot.alive
                              /\ Slot.starttime = Self.create_time)
        /\ ~Slot.alive => ~proc_last.ret
        /\ (Slot.alive /\ Slot.starttime # Self.create_time) => ~proc_last.ret

\* the process is still there, has used CPU time since: is_running() said true
C9_Witness ==
    /\ proc_last.op = "is_running" /\ proc_last.ret
    /\ Slot.alive /\ Slot.busy # Self.busy
    /\ Self.instant # now

\* C10: when the pid belongs to another live process, replace() returns true
\* and self becomes what Process::new(pid) returns at that moment: pid,
\* create_time, busy time and instant.
C10_ReplaceAdoptsEveryField ==
    [][proc_last'.op = "replace" =>
         LET self == procs[proc_last'.self].p
             slot == world[self.pid]
         IN  /\ (proc_last'.ok /\ slot.starttime # self.create_time) => proc_last'.ret
             /\ proc_last'.ret =>
                   procs'[proc_last'.self].p =
                       Process(self.pid, slot.starttime, slot.busy, now)]_vars

\* C11: replace() returns true only when the pid belongs to another live
\* process; where is_replaced() would be false (the pid is still self's, or
\* the lookup finds nothing) it returns false and leaves self as it was.
C11_ReplaceOnlyWhenReplaced ==
    [][proc_last'.op = "replace" =>
         LET self == procs[proc_last'.self].p
             slot == world[self.pid]
             replaced == proc_last'.ok /\ slot.alive
                         /\ slot.starttime # self.create_time
         IN  /\ proc_last'.ret => replaced
             /\ ~replaced => (~proc_last'.ret /\ procs' = procs)]_vars

\* replace() on a process that is still the same but has run since: it said
\* false and the stored busy time is still the old one
C11_Witness ==
    /\ proc_last.op = "replace" /\ ~proc_last.ret /\ proc_last.ok
    /\ Slot.alive /\ Slot.starttime = Self.create_time
    /\ Slot.busy # Self.busy

-----------------------------------------------------------------------------
(* Claims about process errors and signals.                                *)

\* self is not running when the operation is called: its pid has exited or
\* belongs to a process with another create_time
Gone(self) ==
    ~world[self.pid].alive \/ world[self.pid].starttime # self.create_time

\* C12: send_signal(sig) and kill() on a Process that is not running at the
\* time of the call (its pid has exited, or belongs to a process with another
\* create_time) return NoSuchProcess{pid: self.pid}, not a generic
\* signal-delivery failure, and send no signal.
C12_SignalToGoneIsNoSuchProcess ==
    [][(proc_last'.op \in {"send_signal", "kill"} /\ Gone(procs[proc_last'.self].p))
          => /\ proc_last'.err = NoSuchProcess(procs[proc_last'.self].p.pid)
             /\ ~proc_last'.sent.some]_vars

\* the platform's "not found" and "permission denied" errors
NotFoundError(e) ==
    \/ e.error \in {"io::Error", "ReadFile", "OsError"} /\ e.code = "NotFound"
    \/ e.error = "nix::Error" /\ e.code = "ESRCH"
    \/ e.error = "Win32Error" /\ e.code = "ERROR_INVALID_PARAMETER"
    \/ e.error = "NtError" /\ e.code = "STATUS_INVALID_CID"

PermissionDeniedError(e) ==
    \/ e.error \in {"io::Error", "ReadFile", "OsError"} /\ e.code = "PermissionDenied"
    \/ e.error = "nix::Error" /\ e.code = "EPERM"
    \/ e.error = "Win32Error" /\ e.code = "ERROR_ACCESS_DENIED"
    \/ e.error = "NtError" /\ e.code = "STATUS_ACCESS_DENIED"

\* C13: whichever operation on the Process of pid P raised it, a platform
\* "not found" error is returned as NoSuchProcess{pid: P} and a platform
\* "permission denied" error as AccessDenied{pid: P}.
C13_ErrorKindDecidesVariant ==
    /\ NotFoundError(proc_last.raised) => proc_last.err = NoSuchProcess(Self.pid)
    /\ PermissionDeniedError(proc_last.raised) => proc_last.err = AccessDenied(Self.pid)

\* C14: an accessor that fails to read detail of a process whose stat file
\* is readable and shows the zombie state returns ZombieProcess{pid}.
C14_ZombieDetailIsZombieProcess ==
    (/\ proc_last.op = "exe" /\ proc_last.err # NoError
     /\ Slot.alive /\ Slot.zombie /\ Slot.starttime = Self.create_time)
        => proc_last.err = ZombieProcess(Self.pid)

\* the crate Error that holds platform error e as it is: e itself, or the
\* From conversion of an io::Error or a WindowsOsError
Cause(e) ==
    CASE e.error = "io::Error" -> OsError(e.code)
      [] e.error \in {"Win32Error", "NtError"} -> WindowsError(e)
      [] OTHER -> e

\* C15: a platform error that is neither "not found" nor "permission denied"
\* (a parse failure of the per-process file included) is returned as
\* PsutilError{pid, source} with the given pid and the original error,
\* unmodified, as its source.
C15_OtherErrorKeepsItsCause ==
    (/\ proc_last.raised # NoCause
     /\ ~NotFoundError(proc_last.raised)
     /\ ~PermissionDeniedError(proc_last.raised))
        => proc_last.err = PsutilError(Self.pid, Cause(proc_last.raised))

\* C27: send_signal delivers its signal to no process other than the one
\* self identifies, also when the target exits and its pid is reused by a new
\* process between the is_running() check and the signal system call.
C27_SignalReachesOnlySelf ==
    [][(proc_last'.op \in {"send_signal", "kill"} /\ variant = "sys_linux_process"
        /\ proc_last'.sent.some)
          => /\ proc_last'.sent.pid = procs[proc_last'.self].p.pid
             /\ proc_last'.sent.starttime = procs[proc_last'.self].p.create_time]_vars

-----------------------------------------------------------------------------
(* Claims about the percentage delta.                                      *)

First == cpu_times
Second == cpu_last.read.one

\* the result of the last percentage-delta computation
Percent == cpu_last.result.one

\* second.total() > first.total() and no field of second below first's
Advanced ==
    /\ cpu_last.op = "percent_delta"
    /\ total(Second) > total(First)
    /\ \A f \in CpuFields : Second[f] >= First[f]

\* guest time is accounted in user time and guest_nice time in nice time,
\* so neither advances by more than the time it is part of
GuestWithin ==
    /\ Second.guest - First.guest <= Second.user - First.user
    /\ Second.guest_nice - First.guest_nice <= Second.nice - First.nice

InRange(p) == p.some => (p.den > 0 /\ 0 <= p.num /\ p.num <= 100 * p.den)

Partition == {"user", "nice", "system", "idle", "iowait", "irq", "softirq", "steal"}

RECURSIVE SumOver(_, _, _)
\* the sum of the percentages of categories fs, in units of 1/d percent
SumOver(p, fs, d) ==
    IF fs = {} THEN 0
    ELSE LET f == CHOOSE x \in fs : TRUE
         IN  (IF p[f].some THEN (p[f].num * d) \div p[f].den ELSE 0)
             + SumOver(p, fs \ {f}, d)

TotalDiff == total(Second) - total(First)

\* C17: for snapshot pairs with second.total() > first.total() and
\* non-decreasing fields, the percentages of the mutually exclusive
\* categories that make up total() sum to 100 when none is left out, and to
\* no more than 100 when one is left out (none of them being negative).
C17_PartitionSumsTo100 ==
    Advanced =>
        /\ cpu_last.result.kind = "ok"
        /\ \A f \in Partition : Percent[f].some /\ Percent[f].den \in {1, TotalDiff}
        /\ SumOver(Percent, Partition, TotalDiff) = 100 * TotalDiff
        /\ \A f \in Partition :
              /\ Percent[f].num >= 0
              /\ SumOver(Percent, Partition \ {f}, TotalDiff) <= 100 * TotalDiff

C17_Witness ==
    /\ Advanced
    /\ cpu_last.result.kind = "ok"
    /\ Percent["user"].num > 0 /\ Percent["idle"].num > 0 /\ Percent["steal"].num > 0
    /\ Percent["user"].num < 100 * Percent["user"].den

-----------------------------------------------------------------------------
(* Claims about entities that come and go, and about cache_clear.          *)

\* C18: an entity of the fresh reading that the stored previous or corrected
\* map does not hold is in the result of a successful call with exactly its
\* raw counter values.
C18_NewEntityCopiedRaw ==
    [][(IoCalled /\ io_last'.result.kind = "ok")
          => \A n \in DOMAIN io_last'.read.map :
                (n \notin DOMAIN io_prev.map \/ n \notin DOMAIN io_corrected.map)
                    => /\ n \in DOMAIN io_last'.result.map
                       /\ io_last'.result.map[n] = io_last'.read.map[n]]_vars

C18_Witness ==
    /\ io_last.result.kind = "ok" /\ io_last.nowrap
    /\ "dev0" \in io_last.known /\ "dev1" \notin io_last.known
    /\ "dev0" \in DOMAIN io_last.read.map /\ "dev1" \in DOMAIN io_last.read.map
    /\ io_last.result.map["dev0"] # io_last.read.map["dev0"]
    /\ io_last.result.map["dev1"] = io_last.read.map["dev1"]
    /\ \A f \in Fields(variant) : io_last.read.map["dev1"][f] = <<65530, 65535, 0, 0>>

\* map m without the entities the fresh reading lacks
WithoutGone(m, fresh) == [n \in DOMAIN m \cap DOMAIN fresh |-> m[n]]

\* what the call of this step does about the stored entities that its
\* reading lacks: they are not in the result nor in the maps stored
\* afterwards, and the call fails only if it would have failed without them
GoneEntitiesDropped ==
    LET fresh == io_last'.read.map
        gone == (DOMAIN io_prev.map \cup DOMAIN io_corrected.map) \ DOMAIN fresh
    IN  /\ io_last'.result.kind \in {"ok", "panic"}
        /\ io_last'.result.kind = "panic"
              => fix_io_counter_overflow(variant, WithoutGone(io_prev.map, fresh), fresh,
                                         WithoutGone(io_corrected.map, fresh)).overflow
        /\ io_last'.result.kind = "ok"
              => \A n \in gone : /\ n \notin DOMAIN io_last'.result.map
                                 /\ n \notin DOMAIN io_prev'.map
                                 /\ n \notin DOMAIN io_corrected'.map

C20_CacheClearResetsBaseline ==
    [][/\ io_last'.op = "cache_clear"
            => (io_prev' = Some(EmptyMap) /\ io_corrected' = Some(EmptyMap))
       /\ (io_last.op = "cache_clear" /\ IoCalled)
            => /\ io_last'.read.ok => io_last'.result = RetOk(io_last'.read.map)
               /\ (io_last'.read.ok /\ io_last'.nowrap)
                     => /\ io_prev' = Some(io_last'.read.map)
                        /\ io_corrected' = Some(io_last'.read.map)
               /\ (~io_last'.read.ok \/ ~io_last'.nowrap)
                     => UNCHANGED <<io_prev, io_corrected>>]_vars

C20_Witness ==
    /\ io_last.op = "cache_clear"
    /\ io_last.known = {"dev0", "dev1"}
    /\ io_prev = Some(EmptyMap) /\ io_corrected = Some(EmptyMap)
    /\ calls > 0

-----------------------------------------------------------------------------
(* Claims about the CPU percentage of a process.                           *)

\* C22: cpu_percent() computes its result from the busy time and instant
\* self holds, which are those stored by the last successful cpu_percent()
\* or by the construction of the value: a successful call stores the busy time
\* and instant it measured, a failed call stores nothing, and no other
\* operation touches them (replace() keeps them, or takes those of the
\* Process it constructs).
C22_CpuPercentUsesStoredBaseline ==
    [][LET h == proc_last'.self
           self == procs[h].p
           after == procs'[h].p
       IN  /\ (proc_last'.op = "cpu_percent" /\ proc_last'.ok) =>
                 /\ proc_last'.pct = Pct(100 * (world[self.pid].busy - self.busy),
                                         now - self.instant)
                 /\ after = [self EXCEPT !.busy = world[self.pid].busy, !.instant = now]
                 /\ \A g \in Handles \ {h} : procs'[g] = procs[g]
           /\ (proc_last'.op = "cpu_percent" /\ ~proc_last'.ok) => procs' = procs
           /\ proc_last'.op = "replace" =>
                 \/ (after.busy = self.busy /\ after.instant = self.instant)
                 \/ (proc_last'.ret /\ after.busy = world[self.pid].busy /\ after.instant = now)
           /\ proc_last'.op \notin {"cpu_percent", "replace", "new"} => procs' = procs]_vars

\* a successful cpu_percent() of a process that ran since the value was
\* made: the percentage is positive and the value now holds the fresh busy
\* time and instant
C22_Witness ==
    /\ proc_last.op = "cpu_percent" /\ proc_last.ok
    /\ proc_last.pct.num > 0 /\ proc_last.pct.den > 0
    /\ Self.busy = Slot.busy /\ Self.busy > 0
    /\ Self.instant = now /\ now > 0

-----------------------------------------------------------------------------
(* Claims about a collector with several callers.                          *)

\* caller c's call ends in this step
Completes(c) == callers[c].pc = "read" /\ callers'[c].pc = "idle"

\* the call that ends in this step is diffed against the snapshot that was
\* stored when the call began, which is the one the last successful call
\* before it stored (or the constructor), and it stores what it read
DiffedAgainstPreceding(c) ==
    /\ cpu_times = callers[c].seen
    /\ cpu_last'.result.kind = "ok" =>
          /\ cpu_last'.result.one =
                 PercentDelta(variant, callers[c].seen, callers[c].current).pct
          /\ cpu_times' = callers[c].current

\* C23: when the calls on one collector are serialized by the callers' mutual
\* exclusion, every call is diffed against the snapshot stored by the
\* successful call immediately before it.
C23_SerializedCallsDiffAgainstPreceding ==
    [][\A c \in Callers :
          (mutex # "unsynchronised" /\ Completes(c)) => DiffedAgainstPreceding(c)]_vars

\* the same for callers without mutual exclusion, whose reads and stores
\* interleave: it does not hold
C23_InterleavedCallsDiffAgainstPreceding ==
    [][\A c \in Callers : Completes(c) => DiffedAgainstPreceding(c)]_vars

\* two callers under the mutex: c1 sampled tick 0, then c2 sampled tick 1 and
\* was diffed against what c1 had stored
C23_Witness ==
    /\ mutex = "free"
    /\ callers["c1"] = [pc |-> "idle", current |-> StatAt(0), seen |-> StatAt(-1)]
    /\ callers["c2"] = [pc |-> "idle", current |-> StatAt(1), seen |-> StatAt(0)]
    /\ cpu_times = StatAt(1)
    /\ cpu_last.result.kind = "ok"
    /\ cpu_last.result.one = PercentDelta(variant, StatAt(0), StatAt(1)).pct
    /\ cpu_last.result.one["user"].num > 0

-----------------------------------------------------------------------------
(* Claims about enumerating processes.                                     *)

\* the processes that exited between the listing of /proc and the read of
\* their stat file in the last enumeration
Vanished == {pid \in listed.pids : ~world[pid].alive}

\* the enumeration returned the Process of pid
ReturnedProcess(pid) ==
    /\ pid \in DOMAIN listed.entries
    /\ listed.entries[pid].ok
    /\ listed.entries[pid].p.pid = pid
    /\ listed.entries[pid].p.create_time = world[pid].starttime

\* C21: when a process exits between the PID listing and the construction of
\* its Process, the enumeration still succeeds, returns every other process,
\* and reports the vanished one as NoSuchProcess or leaves it out.
C21_EnumerationSurvivesExit ==
    (proc_last.op \in {"processes", "all", "ProcessCollector::new"} /\ proc_last.ok)
        => /\ listed.kind = "ok"
           /\ \A pid \in listed.pids \ Vanished : ReturnedProcess(pid)
           /\ \A pid \in Vanished :
                 \/ pid \notin DOMAIN listed.entries
                 \/ listed.entries[pid] = EntryErr(NoSuchProcess(pid))
           /\ proc_last.op = "ProcessCollector::new"
                 => DOMAIN collector.processes = listed.pids \ Vanished

\* C26: after ProcessCollector::update() returns Ok, every entry whose
\* process was not running when update() was called has been removed, or
\* replaced by the live process that now uses its pid.
C26_UpdateLeavesNoDeadProcess ==
    [][(proc_last'.op = "ProcessCollector::update" /\ listed'.kind = "ok")
          => \A pid \in DOMAIN collector.processes :
                Gone(collector.processes[pid])
                    => \/ pid \notin DOMAIN collector'.processes
                       \/ /\ world'[pid].alive
                          /\ collector'.processes[pid].create_time = world'[pid].starttime]_vars

-----------------------------------------------------------------------------
(* Claims about platform handles.                                          *)

\* the SafeHandle values that hold a handle
Owners == {o \in Objects : objects[o].live /\ is_valid(objects[o])}

\* every handle a value holds is open, no two values hold the same one, the
\* system holds no handle open that no value holds, and no drop closed a
\* handle that was not open
EveryHandleOwnedOnce ==
    /\ \A o \in Owners : objects[o].raw_handle \in open_handles
    /\ \A o, other \in Owners : o # other => objects[o].raw_handle # objects[other].raw_handle
    /\ open_handles = {objects[o].raw_handle : o \in Owners}
    /\ ~handle_last.failed
    /\ (handle_last.op = "drop" /\ handle_last.closed # INVALID_HANDLE_VALUE)
          => handle_last.closed \notin open_handles

\* the last operation cloned a value that holds a handle
ClonedOwner == handle_last.op = "clone" /\ handle_last.self \in Owners

\* C24 as stated: after a clone of a value that holds a handle, the clone
\* holds an open handle of its own, different from the original's; dropping
\* one leaves the other's open; and every handle is closed exactly once.
C24_CloneDuplicatesHandle ==
    /\ EveryHandleOwnedOnce
    /\ ClonedOwner => handle_last.other \in Owners

\* C24 as amended: the same, except that the clone holds no handle at all
\* (INVALID_HANDLE_VALUE) when the system could not duplicate the original's.
C24_CloneDuplicatesHandleOrHoldsNone ==
    /\ EveryHandleOwnedOnce
    /\ ClonedOwner =>
          \/ handle_last.other \in Owners
          \/ objects[handle_last.other] = SafeHandle(INVALID_HANDLE_VALUE)

\* s1 was cloned into s2 and then dropped: s2 holds another handle than the
\* one s1's drop closed, and it is still open
C24_Witness ==
    /\ handle_last = HandleHistory("drop", "s1", "s1", 1, FALSE)
    /\ ~objects["s1"].live
    /\ objects["s2"] = SafeHandle(2)
    /\ open_handles = {2}

-----------------------------------------------------------------------------
(* Claims about the parsers.                                               *)

\* C25: a parser of a kernel text format whose lines grew accepts every line
\* of well-formed fields that has at least the minimum number of them,
\* whatever their number, and reports each later-added field as present
\* exactly when the line is long enough to hold it.
C25_LongEnoughLineAccepted ==
    (parsed # NotParsed /\ line.numeric /\ line.fields >= MinFields(variant))
        => /\ parsed.kind = "ok"
           /\ parsed.present = {f \in Later(variant) : line.fields >= Needs(variant)[f]}

-----------------------------------------------------------------------------
(* Claims about the arithmetic of nowrap.                                  *)

\* C28: whatever the two raw readings and the stored corrected totals are,
\* no u64 operation of nowrap leaves its range, and a call whose reader
\* succeeded returns a result: it does not panic.
C28_NowrapStaysInRange ==
    [][(calls' = calls + 1 /\ variant \in IoVariants /\ io_last'.read.ok)
          => /\ io_last'.result.kind = "ok"
             /\ io_last'.nowrap =>
                   ~fix_io_counter_overflow(variant, io_prev.map, io_last'.read.map,
                                            io_corrected.map).overflow]_vars

-----------------------------------------------------------------------------
(* Claims about an entity that comes back.                                 *)

\* the entities the call just made reports without a stored state of theirs,
\* although the collector returned corrected counters for them before
Reappeared ==
    {n \in DOMAIN io_last'.result.map :
        n \in DOMAIN io_returned.map /\ n \notin io_last'.known}

\* C29: an entity that was absent from one reading and is present again in a
\* later reading of the same collector is reported with corrected counters
\* not lower than the last ones the collector returned for it before.
C29_ReappearedNotLower ==
    [][(calls' = calls + 1 /\ variant \in IoVariants /\ io_last'.nowrap
        /\ io_last'.result.kind = "ok")
          => \A n \in Reappeared : \A f \in Fields(variant) :
                U64Ge(io_last'.result.map[n][f], io_returned.map[n][f])]_vars

-----------------------------------------------------------------------------
(* Claims about a changing number of CPUs.                                 *)

\* the per-CPU call just made read a number of CPUs other than the number
\* of stored snapshots, and no delta of a CPU in both is itself undefined
CpuCountChanged ==
    /\ cpu_last'.op = "cpu_times_percent_percpu" /\ calls' = calls + 1
    /\ cpu_last'.read.ok
    /\ Len(cpu_last'.read.many) # Len(cpu_times_percpu)
    /\ \A i \in 1..Min(Len(cpu_times_percpu), Len(cpu_last'.read.many)) :
          ~PercentDelta(variant, cpu_times_percpu[i], cpu_last'.read.many[i]).panic

\* C30: when the fresh reading has more or fewer CPUs than the collector
\* stored, cpu_times_percent_percpu() neither fails nor panics, returns one
\* result per CPU of the fresh reading, and stores the fresh reading.
C30_OneResultPerFreshCpu ==
    [][CpuCountChanged
          => /\ cpu_last'.result.kind = "ok"
             /\ Len(cpu_last'.result.many) = Len(cpu_last'.read.many)
             /\ cpu_times_percpu' = cpu_last'.read.many]_vars

====
